---- MODULE Spec2Model ----
(***************************************************************************)
(* The scenario merge coordinator of                                       *)
(* cloud_functions/climateiq_merge_scenario_predictions_cf/main.py.        *)
(*                                                                         *)
(* Several invocations of merge_scenario_predictions run concurrently and  *)
(* share only the input bucket, the output bucket and the locks            *)
(* collection.  An invocation is cut into steps at its accesses to that    *)
(* shared state: the listing of the input bucket, the lock document get,   *)
(* the lock document create, the dispatch of the worker pool, every        *)
(* per-chunk merge, and the inspection of the worker results with the      *)
(* lock document delete.  This is the specification Spec.                  *)
(*                                                                         *)
(* Three further specifications follow single calls on their own inputs:   *)
(* SpecKey the handling of a triggering object name of any shape, SpecMerge*)
(* one call of _merge_single_chunk on the contents of the per-scenario     *)
(* files, and SpecSpatialize one invocation of                             *)
(* spatialize_chunk_predictions of                                         *)
(* cloud_functions/climateiq_spatialize_chunk_predictions_cf/main.py on a  *)
(* grid of chunks.                                                         *)
(*                                                                         *)
(* SpecCancel is Spec with invocations cancelled while they hold the lock; *)
(* SpecLive the coordinator when nothing fails, with fairness; SpecManifest*)
(* the reading of metadata documents that may lack a field; SpecLock the   *)
(* lock documents of invocations of different batches; SpecExport          *)
(* trigger_export_pipeline of                                              *)
(* cloud_functions/climateiq_trigger_export_pipeline_cf/main.py.           *)
(***************************************************************************)
EXTENDS Integers, Sequences, FiniteSets, TLC

VARIABLES
    blobs,            \* objects of INPUT_BUCKET_NAME
    output,           \* objects of OUTPUT_BUCKET_NAME
    locks,            \* documents of the locks collection
    run_doc,          \* models/<model_id>/runs/<batch_id>
    study_area_docs,  \* study_areas/<study_area_name>
    pc,               \* position of every invocation
    study_area_name,  \* study area parsed from the triggering object name
    chunk_ids,        \* sorted list of chunk ids of every invocation
    subsets,          \* chunk-id lists submitted to the process pool
    results,          \* outcome of every per-chunk merge of an invocation
    trace,            \* what an invocation did to the outside, in order
    trigger,          \* one triggering object name and what its handling did
                      \* (SpecLive: the writes whose invocation has not begun)
    chunk_merge,      \* one call of _merge_single_chunk with its input files
    spatialize        \* one invocation of spatialize_chunk_predictions

\* The state of the coordinator, and the state of the single calls that are
\* followed on their own.
coordinator == <<blobs, output, locks, run_doc, study_area_docs, pc,
                 study_area_name, chunk_ids, subsets, results, trace>>
calls == <<trigger, chunk_merge, spatialize>>
vars == <<coordinator, calls>>

----------------------------------------------------------------------------
(* Bounds of the model.                                                    *)

NumInvocations == 2
MaxChunkXCount == 2
MaxCpuCount == 3

Invocations == 1 .. NumInvocations

\* Scenario ids that get written, and the scenario_ids lists a run document
\* may hold ("s2" is a scenario of which no file has been written).
WrittenScenarioIds == {"s0", "s1"}
ExpectedScenarioIds == {{"s0"}, {"s0", "s1"}, {"s2"}}

\* Chunk ids, in the order of sorted(..., key=str).
ChunkIdOrder == <<"c0", "c1">>
ChunkIds == {ChunkIdOrder[k] : k \in 1 .. Len(ChunkIdOrder)}

\* Study area names are character sequences.  Invocations are followed for
\* the study area "N"; "N2" is another study area of the same batch, whose
\* files land in the same bucket.
StudyAreaNames == {<<"N">>}
OtherStudyAreaNames == {<<"N", "2">>}

\* MAX_PROCESSES read from the environment of the process of an invocation.
MaxProcessesEnv == {-1, 0, 2}

Max(a, b) == IF a >= b THEN a ELSE b
Min(a, b) == IF a <= b THEN a ELSE b

----------------------------------------------------------------------------
(* Object names, listing, and the scenario -> chunk ids mapping.           *)

\* f"{batch_id}/{prediction_type}/{model_id}/" of the one batch modelled.
BatchPath == <<"b", "/", "t", "/", "m", "/">>

\* f"{batch_id}/{prediction_type}/{model_id}/{study_area_name}/{scenario_id}/{chunk_id}.csv"
ObjectName(b) == BatchPath \o b.sa \o <<"/", b.sc, "/", b.ch, ".csv">>

Blobs ==
    [sa : StudyAreaNames, sc : WrittenScenarioIds, ch : ChunkIds]
        \cup [sa : OtherStudyAreaNames, sc : {"s0"}, ch : {"c0"}]

IsPrefix(p, s) == Len(p) <= Len(s) /\ SubSeq(s, 1, Len(p)) = p

\* prefix=f"{batch_id}/{prediction_type}/{model_id}/{study_area_name}"
ListPrefix(sa) == BatchPath \o sa

list_blobs(store, sa) == {b \in store : IsPrefix(ListPrefix(sa), ObjectName(b))}

\* chunks_per_scenario[scenario_id] is a list with one chunk id per listed
\* blob; it is kept as the bag of its elements (chunk id -> occurrences).
get_chunk_ids_to_scenario_id(listed) ==
    [sc \in {b.sc : b \in listed} |->
        [ch \in {b.ch : b \in {x \in listed : x.sc = sc}} |->
            Cardinality({x \in listed : x.sc = sc /\ x.ch = ch})]]

RECURSIVE SumOver(_, _)
SumOver(f, S) ==
    IF S = {} THEN 0
    ELSE LET x == CHOOSE y \in S : TRUE IN f[x] + SumOver(f, S \ {x})

\* len(chunk_ids) of one scenario's list.
ListLen(bag) == SumOver(bag, DOMAIN bag)

files_complete_no_chunk_check(expected_scenario_ids, expected_num_chunks, m) ==
    LET actual_scenario_ids == DOMAIN m IN
    IF /\ actual_scenario_ids = expected_scenario_ids
       /\ \A sc \in DOMAIN m : ListLen(m[sc]) = expected_num_chunks
    THEN "True"
    ELSE IF /\ expected_scenario_ids \subseteq actual_scenario_ids
            /\ actual_scenario_ids # expected_scenario_ids
    THEN "ValueError_scenarios"
    ELSE "False"

files_complete_ge(expected_scenario_ids, expected_num_chunks, m) ==
    LET actual_scenario_ids == DOMAIN m IN
    IF /\ actual_scenario_ids = expected_scenario_ids
       /\ \A sc \in DOMAIN m : ListLen(m[sc]) = expected_num_chunks
    THEN "True"
    ELSE IF /\ expected_scenario_ids \subseteq actual_scenario_ids
            /\ actual_scenario_ids # expected_scenario_ids
    THEN "ValueError_scenarios"
    ELSE IF \E sc \in DOMAIN m : ListLen(m[sc]) >= expected_num_chunks
    THEN "ValueError_chunks"
    ELSE "False"

\* _files_complete: "True", "False", or the ValueError it raises.
files_complete(expected_scenario_ids, expected_num_chunks, m) ==
    LET actual_scenario_ids == DOMAIN m IN
    IF /\ actual_scenario_ids = expected_scenario_ids
       /\ \A sc \in DOMAIN m : ListLen(m[sc]) = expected_num_chunks
    THEN "True"
    ELSE IF /\ expected_scenario_ids \subseteq actual_scenario_ids
            /\ actual_scenario_ids # expected_scenario_ids
    THEN "ValueError_scenarios"
    ELSE IF \E sc \in DOMAIN m : ListLen(m[sc]) > expected_num_chunks
    THEN "ValueError_chunks"
    ELSE "False"

\* sorted(list(set(itertools.chain.from_iterable(...))), key=str)
sorted_chunk_ids(m) ==
    SelectSeq(ChunkIdOrder, LAMBDA c : \E sc \in DOMAIN m : c \in DOMAIN m[sc])

----------------------------------------------------------------------------
(* The lock documents.  A document is {"running": True}; the model also    *)
(* remembers which invocation created it.                                  *)

\* f"{batch_id}-{prediction_type}-{model_id}-{study_area_name}", each
\* component a sequence of characters.
lock_document_id(batch_id, prediction_type, model_id, sa) ==
    batch_id \o <<"-">> \o prediction_type \o <<"-">> \o model_id \o <<"-">> \o sa

\* The document id of the batch "b", prediction type "t" and model "m".
LockDocId(sa) == lock_document_id(<<"b">>, <<"t">>, <<"m">>, sa)

\* _get_lock: lock_doc.exists
get_lock(L, sa) == \E l \in L : l.id = LockDocId(sa)

set_lock_overwrite(L, sa, i) ==
    [raised |-> FALSE,
     locks |-> {l \in L : l.id # LockDocId(sa)} \cup {[id |-> LockDocId(sa), owner |-> i]}]

\* _set_lock: DocumentReference.create() writes the document only if it does
\* not exist yet and raises Conflict otherwise.
set_lock(L, sa, i) ==
    IF \E l \in L : l.id = LockDocId(sa)
    THEN [raised |-> TRUE, locks |-> L]
    ELSE [raised |-> FALSE, locks |-> L \cup {[id |-> LockDocId(sa), owner |-> i]}]

\* _delete_lock
delete_lock(L, sa) == {l \in L : l.id # LockDocId(sa)}

----------------------------------------------------------------------------
(* The metadata documents.                                                 *)

RunDocs ==
    {[exists |-> FALSE, scenario_ids |-> {}]}
        \cup {[exists |-> TRUE, scenario_ids |-> S] : S \in ExpectedScenarioIds}

StudyAreaDocs ==
    {[exists |-> FALSE, chunk_x_count |-> 0, chunk_y_count |-> 0]}
        \cup [exists : {TRUE}, chunk_x_count : 1 .. MaxChunkXCount,
              chunk_y_count : {1}]

\* _get_expected_num_chunks, for a document that exists
get_expected_num_chunks(doc) == doc.chunk_x_count * doc.chunk_y_count

----------------------------------------------------------------------------
(* merge_scenario_predictions up to the lock: manifest, listing, gate.     *)

Ended(events) == [pc |-> "done", events |-> events, chunk_ids |-> <<>>]

\* The gate with the existence check of the study-area document left out.
gate_run_doc_only(rd, sad, store, sa) ==
    IF ~rd.exists
    THEN Ended(<<"log_ERROR_metadata_missing", "return">>)
    ELSE LET scenario_ids == rd.scenario_ids
             num_chunks == get_expected_num_chunks(sad)
             m == get_chunk_ids_to_scenario_id(list_blobs(store, sa))
             complete == files_complete(scenario_ids, num_chunks, m)
             ids == sorted_chunk_ids(m)
         IN  IF complete = "ValueError_scenarios"
             THEN Ended(<<"log_ERROR_more_scenario_ids", "return">>)
             ELSE IF complete = "ValueError_chunks"
             THEN Ended(<<"log_ERROR_more_chunks", "return">>)
             ELSE IF complete = "False"
             THEN Ended(<<"log_INFO_not_all_files_ready", "return">>)
             ELSE IF Len(ids) # num_chunks
             THEN Ended(<<"log_ERROR_chunk_ids_differ", "return">>)
             ELSE [pc |-> "get_lock", events |-> <<"log_DEBUG_starting_merge">>,
                   chunk_ids |-> ids]

\* Lines 115-167 of merge_scenario_predictions, on the listing of `store`.
gate(rd, sad, store, sa) ==
    IF ~rd.exists \/ ~sad.exists
    THEN Ended(<<"log_ERROR_metadata_missing", "return">>)
    ELSE
        LET scenario_ids == rd.scenario_ids
            num_chunks == get_expected_num_chunks(sad)
            m == get_chunk_ids_to_scenario_id(list_blobs(store, sa))
            complete == files_complete(scenario_ids, num_chunks, m)
            ids == sorted_chunk_ids(m)
        IN  IF complete = "ValueError_scenarios"
            THEN Ended(<<"log_ERROR_more_scenario_ids", "return">>)
            ELSE IF complete = "ValueError_chunks"
            THEN Ended(<<"log_ERROR_more_chunks", "return">>)
            ELSE IF complete = "False"
            THEN Ended(<<"log_INFO_not_all_files_ready", "return">>)
            ELSE IF Len(ids) # num_chunks
            THEN Ended(<<"log_ERROR_chunk_ids_differ", "return">>)
            ELSE [pc |-> "get_lock", events |-> <<"log_DEBUG_starting_merge">>,
                  chunk_ids |-> ids]

----------------------------------------------------------------------------
(* Dispatch and the workers.                                               *)

\* MAX_PROCESSES = int(os.environ.get("MAX_PROCESSES", 0)) or None; 0 is None
\* ProcessPoolExecutor(max_workers) raises ValueError for max_workers <= 0.
pool_raises(env) == env # 0 /\ env <= 0

\* max(int(num_chunks / max(((os.cpu_count() or 2) - 1), 1)), 1)
max_chunks_per_process(num_chunks, cpu_count) ==
    Max(num_chunks \div Max(cpu_count - 1, 1), 1)

\* chunk_ids[i : i + max_chunks_per_process] for i in range(0, num_chunks, ...)
chunk_subsets(ids, num_chunks, per) ==
    [k \in 1 .. ((num_chunks + per - 1) \div per) |->
        SubSeq(ids, (k - 1) * per + 1, Min(k * per, Len(ids)))]

\* The first exception in a list of future results, "ok" if there is none.
first_failure(rs) ==
    IF \A k \in 1 .. Len(rs) : rs[k] = "ok" THEN "ok"
    ELSE rs[CHOOSE k \in 1 .. Len(rs) :
                /\ rs[k] # "ok"
                /\ \A j \in 1 .. (k - 1) : rs[j] = "ok"]

\* _merge_chunk_set: future.result() of every chunk of the subset, in order.
merge_chunk_set(res, subset) ==
    first_failure([k \in 1 .. Len(subset) |-> res[subset[k]]])

\* The loop over subset_futures: the exception it meets first, or "ok".
inspect(res, subs) ==
    first_failure([k \in 1 .. Len(subs) |-> merge_chunk_set(res, subs[k])])

handle_result_reraise(r) ==
    IF r = "ValueError" THEN <<"delete_lock", "raise">>
    ELSE IF r = "Exception" THEN <<"delete_lock", "raise">>
    ELSE <<"delete_lock", "log_DEBUG_wrote_files", "return">>

handle_result_no_delete(r) ==
    IF r = "ValueError" THEN <<"delete_lock", "log_ERROR_worker", "return">>
    ELSE IF r = "Exception" THEN <<"raise">>
    ELSE <<"delete_lock", "log_DEBUG_wrote_files", "return">>

\* An executor left without waiting: the results are looked at as soon as
\* one worker has ended.
shutdown_no_wait(res) == \E c \in ChunkIds : res[c] \notin {"pending", "none"}

\* The exit of `with futures.ProcessPoolExecutor(...) as executor`, line 182:
\* shutdown(wait=True) returns once every submitted future has ended.
shutdown(res) == \A c \in ChunkIds : res[c] # "pending"

\* What merge_scenario_predictions does once the loop has met result r.
handle_result(r) ==
    IF r = "ValueError" THEN <<"delete_lock", "log_ERROR_worker", "return">>
    ELSE IF r = "Exception" THEN <<"delete_lock", "raise">>
    ELSE <<"delete_lock", "log_DEBUG_wrote_files", "return">>

----------------------------------------------------------------------------
(* Triggering object names and CHUNK_FILE_NAME_PATTERN.  A name is a       *)
(* sequence of tokens: "/" and ".csv" stand for themselves, every other    *)
(* token for a run of characters that holds neither.                       *)

MaxDirs == 6
DirOrder == <<"b", "t", "m", "N", "s0", "x", "y", "z">>
KeyTails == {<<>>, <<"c0">>, <<".csv">>, <<"c0", ".csv">>, <<"c0", ".txt">>,
             <<"c0", ".csv", ".bak">>, <<"c0", ".csv", ".csv">>,
             <<"c0", ".csv", "/", "x">>}

\* The first k directories of DirOrder, each followed by "/"; directory e is
\* the empty string (e = 0: none is).
Dirs(k, e) ==
    SelectSeq([n \in 1 .. 2 * k |->
                  IF n % 2 = 0 THEN "/"
                  ELSE IF (n + 1) \div 2 = e THEN "" ELSE DirOrder[(n + 1) \div 2]],
              LAMBDA t : t # "")

KeyNames == {Dirs(k, e) \o tail : k \in 0 .. MaxDirs, e \in 0 .. MaxDirs, tail \in KeyTails}

SlashesOf(name) == {k \in 1 .. Len(name) : name[k] = "/"}
NthSlash(name, n) ==
    CHOOSE k \in SlashesOf(name) : Cardinality({j \in SlashesOf(name) : j <= k}) = n

\* The n-th "/"-separated part of a name.
Part(name, n) ==
    SubSeq(name,
           IF n = 1 THEN 1 ELSE NthSlash(name, n - 1) + 1,
           IF Cardinality(SlashesOf(name)) >= n THEN NthSlash(name, n) - 1 ELSE Len(name))

NoMatch == [matched |-> FALSE]

\* re.match(CHUNK_FILE_NAME_PATTERN, name): five times [^/]+ and "/", then the
\* longest [^/]+ that is followed by ".csv"; the match is anchored at the
\* start of the name only.
re_match(name) ==
    IF \/ Cardinality(SlashesOf(name)) < 5
       \/ \E n \in 1 .. 5 : Part(name, n) = <<>>
    THEN NoMatch
    ELSE LET last == Part(name, 6)
             exts == {k \in 2 .. Len(last) : last[k] = ".csv"}
         IN  IF exts = {} THEN NoMatch
             ELSE [matched |-> TRUE, study_area_name |-> Part(name, 4),
                   chunk_id |-> SubSeq(last, 1,
                                       (CHOOSE k \in exts : \A j \in exts : j <= k) - 1)]

NoTrigger == [name |-> <<>>, pc |-> "none", events |-> <<>>]

----------------------------------------------------------------------------
(* The contents of the per-scenario files of a chunk, and                  *)
(* _merge_single_chunk as a function of them.                              *)

MaxHexes == 2
MaxPrediction == 1
HexOrder == <<"h0", "h1", "h2">>
Hexes == {HexOrder[k] : k \in 1 .. MaxHexes}
Predictions == 0 .. MaxPrediction
ScenarioOrder == <<"s0", "s1">>
Rank(sc) == CHOOSE k \in 1 .. Len(ScenarioOrder) : ScenarioOrder[k] = sc

\* The scenario_ids field of the run document: a list in any order.
ScenarioIdLists == {<<"s0">>, <<"s1">>, <<"s0", "s1">>, <<"s1", "s0">>}

\* The rows of a file as csv.DictReader returns them; a file of the input
\* bucket has one row for each of its hex indices.
FileRows ==
    {rows \in UNION {[1 .. n -> [h3_index : Hexes, prediction : Predictions]] :
                        n \in 0 .. MaxHexes} :
        \A j, k \in 1 .. Len(rows) : rows[j].h3_index = rows[k].h3_index => j = k}
FileContents == {[exists |-> FALSE, rows |-> <<>>]} \cup [exists : {TRUE}, rows : FileRows]

\* sorted(list(run_doc.get("scenario_ids")), key=str) left out.
get_expected_scenario_ids_unsorted(ids) == ids

\* Line 238: sorted(list(run_doc.get("scenario_ids")), key=str).
get_expected_scenario_ids(ids) ==
    [k \in 1 .. Len(ids) |->
        CHOOSE sc \in {ids[j] : j \in 1 .. Len(ids)} :
            Cardinality({j \in 1 .. Len(ids) : Rank(ids[j]) < Rank(sc)}) = k - 1]

OutputFileName(chunk_id) == <<"b", "/", "t", "/", "m", "/", "N", "/", chunk_id, ".csv">>

RECURSIVE InsertionOrder(_)
\* The keys of a dict in the order of their first insertion.
InsertionOrder(keys) ==
    IF keys = <<>> THEN <<>>
    ELSE LET front == InsertionOrder(SubSeq(keys, 1, Len(keys) - 1))
             last == keys[Len(keys)]
         IN  IF \E k \in 1 .. Len(front) : front[k] = last
             THEN front
             ELSE Append(front, last)

RECURSIVE ReadKeys(_, _)
\* The h3_index of every row read, scenario after scenario (lines 394-396).
ReadKeys(scenario_ids, files) ==
    IF scenario_ids = <<>> THEN <<>>
    ELSE LET rows == files[Head(scenario_ids)].rows
         IN  [k \in 1 .. Len(rows) |-> rows[k].h3_index]
             \o ReadKeys(Tail(scenario_ids), files)

\* predictions_by_cell_code[cell_code]: the scenarios that have a row for
\* the cell, and the prediction of that row.
ScenariosOf(scenario_ids, files, cell_code) ==
    {scenario_ids[k] : k \in {j \in 1 .. Len(scenario_ids) :
        \E n \in 1 .. Len(files[scenario_ids[j]].rows) :
            files[scenario_ids[j]].rows[n].h3_index = cell_code}}
PredictionOf(files, scenario_id, cell_code) ==
    LET rows == files[scenario_id].rows
    IN  rows[CHOOSE n \in 1 .. Len(rows) : rows[n].h3_index = cell_code].prediction

\* The rows of the output in the order of fieldnames.
OutputRow(scenario_ids, files, cell_code) ==
    <<cell_code>> \o [k \in 1 .. Len(scenario_ids) |->
                        PredictionOf(files, scenario_ids[k], cell_code)]

NotOpened == [object_name |-> <<>>, header |-> <<>>, rows |-> <<>>]

\* _merge_single_chunk without the test of missing_scenario_ids: a cell
\* that lacks a scenario gets an empty field.
merge_single_chunk_unchecked(scenario_ids, chunk_id, files) ==
    LET absent == {k \in 1 .. Len(scenario_ids) : ~files[scenario_ids[k]].exists}
        cells == InsertionOrder(ReadKeys(scenario_ids, files))
    IN  IF absent # {}
        THEN [status |-> "ValueError",
              error |-> <<"MissingPredictions",
                          scenario_ids[CHOOSE k \in absent : \A j \in absent : k <= j]>>,
              written |-> NotOpened]
        ELSE [status |-> "ok", error |-> <<>>,
              written |->
                  [object_name |-> OutputFileName(chunk_id),
                   header |-> <<"cell_code">> \o scenario_ids,
                   rows |-> [n \in 1 .. Len(cells) |->
                       <<cells[n]>> \o [k \in 1 .. Len(scenario_ids) |->
                           IF scenario_ids[k] \in ScenariosOf(scenario_ids, files, cells[n])
                           THEN PredictionOf(files, scenario_ids[k], cells[n])
                           ELSE ""]]]]

\* Lines 369-421.  The files are read in the order of scenario_ids and the
\* first missing one ends the call; the header is written, then the cells in
\* the order of their insertion, up to the first one that lacks a scenario.
merge_single_chunk(scenario_ids, chunk_id, files) ==
    LET absent == {k \in 1 .. Len(scenario_ids) : ~files[scenario_ids[k]].exists}
        cells == InsertionOrder(ReadKeys(scenario_ids, files))
        missing_scenario_ids(n) ==
            {scenario_ids[k] : k \in 1 .. Len(scenario_ids)}
                \ ScenariosOf(scenario_ids, files, cells[n])
        short == {n \in 1 .. Len(cells) : missing_scenario_ids(n) # {}}
        stop == IF short = {} THEN Len(cells) + 1
                ELSE CHOOSE n \in short : \A j \in short : n <= j
        opened == [object_name |-> OutputFileName(chunk_id),
                   header |-> <<"cell_code">> \o scenario_ids,
                   rows |-> [n \in 1 .. stop - 1 |->
                                OutputRow(scenario_ids, files, cells[n])]]
    IN  IF absent # {}
        THEN [status |-> "ValueError",
              error |-> <<"MissingPredictions",
                          scenario_ids[CHOOSE k \in absent : \A j \in absent : k <= j]>>,
              written |-> NotOpened]
        ELSE IF short # {}
        THEN [status |-> "ValueError",
              error |-> <<"MissingCellData", cells[stop], missing_scenario_ids(stop)>>,
              written |-> opened]
        ELSE [status |-> "ok", error |-> <<>>, written |-> opened]

NoChunkMerge == [pc |-> "none"]

----------------------------------------------------------------------------
(* The chunk grid of a study area, the hexagon index and the geometry of   *)
(* climateiq_spatialize_chunk_predictions_cf/main.py.                      *)
(*                                                                         *)
(* Coordinates of GLOBAL_CRS are integers: to_crs is the map               *)
(* (x, y) -> (2x, 2y), under which within, contains and intersects are     *)
(* what they are in the source CRS and every cell centre is integral.  The *)
(* cells of the hexagon index are the squares of side HexWidth of a        *)
(* regular tiling, so that some of them straddle chunk boundaries and      *)
(* others do not.                                                          *)

MaxFaults == 2
cell_size == 2
HexWidth == 6

\* chunk_x_count and chunk_y_count of the study area; row_count and
\* col_count of its chunks.
GridCounts == {<<1, 1>>, <<2, 2>>, <<3, 1>>}
ChunkShapes == {<<2, 2>>, <<3, 2>>}

study_area_metadata_of(grid) ==
    [cell_size |-> cell_size, chunk_x_count |-> grid[1], chunk_y_count |-> grid[2]]

\* The chunk document of the chunk at grid position pos.
chunk_metadata_of(pos, shape) ==
    [row_count |-> shape[1], col_count |-> shape[2],
     x_ll_corner |-> pos[1] * shape[2] * cell_size,
     y_ll_corner |-> pos[2] * shape[1] * cell_size,
     x_index |-> pos[1], y_index |-> pos[2]]

\* A raster of the given shape; its values depend on the cell and on seed.
Raster(rows, cols, seed) ==
    [r \in 1 .. rows |-> [c \in 1 .. cols |-> (seed + r + 2 * c) % (MaxPrediction + 1)]]

\* np.flipud left out: the rows stay in their order.
flipud_none(a) == a

\* np.flipud: the rows in reverse order.
flipud(a) == [r \in 1 .. Len(a) |-> a[Len(a) + 1 - r]]

RECURSIVE flatten(_)
flatten(a) == IF a = <<>> THEN <<>> ELSE Head(a) \o flatten(Tail(a))

\* Lines 250-298: the centres of the row_count x col_count cells, row after
\* row from the lowest y, each with the value at its place in the flattened
\* vertically flipped raster.  pandas.DataFrame raises ValueError when the
\* flattened raster and the coordinates differ in length.
build_spatialized_model_predictions(sam, cm, predictions) ==
    LET aligned_predictions == flatten(flipud(predictions))
        n == cm.row_count * cm.col_count
    IN  IF Len(aligned_predictions) # n
        THEN [raised |-> TRUE, points |-> <<>>]
        ELSE [raised |-> FALSE,
              points |-> [p \in 1 .. n |->
                  [lat |-> 2 * cm.y_ll_corner
                           + (2 * ((p - 1) \div cm.col_count) + 1) * sam.cell_size,
                   lon |-> 2 * cm.x_ll_corner
                           + (2 * ((p - 1) % cm.col_count) + 1) * sam.cell_size,
                   prediction |-> aligned_predictions[p]]]]

\* _get_chunk_boundary, lines 406-435: the rectangle of the chunk.
get_chunk_boundary(sam, cm) ==
    [min_x |-> 2 * cm.x_ll_corner,
     min_y |-> 2 * cm.y_ll_corner,
     max_x |-> 2 * (cm.x_ll_corner + cm.col_count * sam.cell_size),
     max_y |-> 2 * (cm.y_ll_corner + cm.row_count * sam.cell_size)]

\* h3.geo_to_h3, h3.h3_to_geo and h3.h3_to_geo_boundary.
geo_to_h3(lat, lon) == <<lon \div HexWidth, lat \div HexWidth>>
h3_to_geo(h3_index) ==
    [lat |-> HexWidth * h3_index[2] + HexWidth \div 2,
     lon |-> HexWidth * h3_index[1] + HexWidth \div 2]
h3_to_geo_boundary(h3_index) ==
    [min_x |-> HexWidth * h3_index[1], min_y |-> HexWidth * h3_index[2],
     max_x |-> HexWidth * (h3_index[1] + 1), max_y |-> HexWidth * (h3_index[2] + 1)]

\* shapely: a.within(b), b.contains(point), a.intersects(b) on rectangles.
within(a, b) ==
    a.min_x >= b.min_x /\ a.max_x <= b.max_x /\ a.min_y >= b.min_y /\ a.max_y <= b.max_y
contains(b, point) ==
    b.min_x < point.lon /\ point.lon < b.max_x /\ b.min_y < point.lat /\ point.lat < b.max_y
intersects(a, b) ==
    a.min_x <= b.max_x /\ b.min_x <= a.max_x /\ a.min_y <= b.max_y /\ b.min_y <= a.max_y

\* _get_h3_index_details, lines 317-347.
get_h3_index_details(lat, lon, chunk_boundary) ==
    LET h3_index == geo_to_h3(lat, lon)
    IN  IF ~contains(chunk_boundary, h3_to_geo(h3_index))
        THEN [h3_index |-> <<>>, is_boundary_cell |-> FALSE]
        ELSE [h3_index |-> h3_index,
              is_boundary_cell |-> ~within(h3_to_geo_boundary(h3_index), chunk_boundary)]

\* Lines 471-495: the rows of the frame that survive dropna, with their
\* hexagon index.
retained_rows(points, chunk_boundary) ==
    LET detail(p) == get_h3_index_details(points[p].lat, points[p].lon, chunk_boundary)
        rows == [p \in 1 .. Len(points) |->
                    [lat |-> points[p].lat, lon |-> points[p].lon,
                     prediction |-> points[p].prediction,
                     h3_index |-> detail(p).h3_index,
                     is_boundary_cell |-> detail(p).is_boundary_cell]]
    IN  SelectSeq(rows, LAMBDA row : row.h3_index # <<>>)

\* Lines 499-501.
boundary_h3_cells_of(frame) ==
    {frame[k].h3_index : k \in {j \in 1 .. Len(frame) : frame[j].is_boundary_cell}}

\* Lines 627-638 with the isin filter left out.
neighbor_rows_unfiltered(points, frame) ==
    [p \in 1 .. Len(points) |->
        [lat |-> points[p].lat, lon |-> points[p].lon,
         prediction |-> points[p].prediction,
         h3_index |-> geo_to_h3(points[p].lat, points[p].lon),
         is_boundary_cell |-> FALSE]]

\* Lines 627-638: the rows of a neighbor whose hexagon index is one of the
\* frame's.
neighbor_rows(points, frame) ==
    SelectSeq([p \in 1 .. Len(points) |->
                  [lat |-> points[p].lat, lon |-> points[p].lon,
                   prediction |-> points[p].prediction,
                   h3_index |-> geo_to_h3(points[p].lat, points[p].lon),
                   is_boundary_cell |-> FALSE]],
              LAMBDA row : \E k \in 1 .. Len(frame) : frame[k].h3_index = row.h3_index)

\* groupby(["h3_index"]).prediction.agg("min") in the place of "max".
groupby_min(frame) ==
    [h \in {frame[k].h3_index : k \in 1 .. Len(frame)} |->
        CHOOSE v \in {frame[k].prediction : k \in {j \in 1 .. Len(frame) : frame[j].h3_index = h}} :
            \A k \in 1 .. Len(frame) : frame[k].h3_index = h => v <= frame[k].prediction]

\* groupby(["h3_index"]).prediction.agg("max").
groupby_max(frame) ==
    [h \in {frame[k].h3_index : k \in 1 .. Len(frame)} |->
        CHOOSE v \in {frame[k].prediction : k \in {j \in 1 .. Len(frame) : frame[j].h3_index = h}} :
            \A k \in 1 .. Len(frame) : frame[k].h3_index = h => frame[k].prediction <= v]

\* Lines 558-567: the eight grid positions around (x, y).
neighbors_of(x, y) ==
    {<<x - 1, y + 1>>, <<x, y + 1>>, <<x + 1, y + 1>>, <<x - 1, y>>, <<x + 1, y>>,
     <<x - 1, y - 1>>, <<x, y - 1>>, <<x + 1, y - 1>>}

\* Lines 569-576 without the upper bounds.
outside_study_area_below(sam, n) == n[1] < 0 \/ n[2] < 0

\* Lines 569-576.
outside_study_area(sam, n) ==
    n[1] < 0 \/ n[2] < 0 \/ n[1] >= sam.chunk_x_count \/ n[2] >= sam.chunk_y_count

\* Line 546 with the test left out.
no_boundary_cells_never(boundary_h3_cells) == FALSE

\* Line 546: boundary_h3_cells.size == 0.
no_boundary_cells(boundary_h3_cells) == boundary_h3_cells = {}

NoSpatialize == [pc |-> "none"]

----------------------------------------------------------------------------
(* The state machine.                                                      *)

Init ==
    /\ blobs = {}
    /\ output = {}
    /\ locks = {}
    /\ run_doc \in RunDocs
    /\ study_area_docs \in [StudyAreaNames -> StudyAreaDocs]
    /\ pc = [i \in Invocations |-> "idle"]
    /\ study_area_name = [i \in Invocations |-> <<>>]
    /\ chunk_ids = [i \in Invocations |-> <<>>]
    /\ subsets = [i \in Invocations |-> <<>>]
    /\ results = [i \in Invocations |-> <<>>]
    /\ trace = [i \in Invocations |-> <<>>]
    /\ trigger = NoTrigger
    /\ chunk_merge = NoChunkMerge
    /\ spatialize = NoSpatialize

\* A prediction file of some chunk and scenario lands in the input bucket.
WriteBlob(b) ==
    /\ b \notin blobs
    /\ blobs' = blobs \cup {b}
    /\ UNCHANGED <<calls, output, locks, run_doc, study_area_docs, pc, study_area_name,
                   chunk_ids, subsets, results, trace>>

\* merge_scenario_predictions(object_name) for a written object, lines 95-167.
Begin(i, b) ==
    /\ pc[i] = "idle"
    /\ b \in blobs
    /\ b.sa \in StudyAreaNames
    /\ LET g == gate(run_doc, study_area_docs[b.sa], blobs, b.sa) IN
        /\ pc' = [pc EXCEPT ![i] = g.pc]
        /\ trace' = [trace EXCEPT ![i] = g.events]
        /\ chunk_ids' = [chunk_ids EXCEPT ![i] = g.chunk_ids]
    /\ study_area_name' = [study_area_name EXCEPT ![i] = b.sa]
    /\ UNCHANGED <<calls, blobs, output, locks, run_doc, study_area_docs, subsets, results>>

\* Lines 169-175.
GetLock(i) ==
    /\ pc[i] = "get_lock"
    /\ IF get_lock(locks, study_area_name[i])
       THEN /\ pc' = [pc EXCEPT ![i] = "done"]
            /\ trace' = [trace EXCEPT ![i] =
                            @ \o <<"log_WARNING_already_running", "return">>]
       ELSE /\ pc' = [pc EXCEPT ![i] = "set_lock"]
            /\ trace' = trace
    /\ UNCHANGED <<calls, blobs, output, locks, run_doc, study_area_docs, study_area_name,
                   chunk_ids, subsets, results>>

\* Line 176.
SetLock(i) ==
    /\ pc[i] = "set_lock"
    /\ LET r == set_lock(locks, study_area_name[i], i) IN
        IF r.raised
        THEN /\ pc' = [pc EXCEPT ![i] = "done"]
             /\ trace' = [trace EXCEPT ![i] = @ \o <<"create_Conflict", "raise">>]
             /\ locks' = locks
        ELSE /\ pc' = [pc EXCEPT ![i] = "dispatch"]
             /\ trace' = [trace EXCEPT ![i] = @ \o <<"set_lock">>]
             /\ locks' = r.locks
    /\ UNCHANGED <<calls, blobs, output, run_doc, study_area_docs, study_area_name,
                   chunk_ids, subsets, results>>

\* Lines 178-194: the process pool and the submission of the chunk subsets.
Dispatch(i) ==
    /\ pc[i] = "dispatch"
    /\ \E env \in MaxProcessesEnv, cpu_count \in 1 .. MaxCpuCount :
        IF pool_raises(env)
        THEN /\ pc' = [pc EXCEPT ![i] = "done"]
             /\ trace' = [trace EXCEPT ![i] = @ \o <<"raise">>]
             /\ UNCHANGED <<subsets, results>>
        ELSE LET num_chunks ==
                     get_expected_num_chunks(study_area_docs[study_area_name[i]])
                 per == max_chunks_per_process(num_chunks, cpu_count)
             IN  /\ subsets' = [subsets EXCEPT ![i] =
                                    chunk_subsets(chunk_ids[i], num_chunks, per)]
                 /\ results' = [results EXCEPT ![i] =
                                    [c \in ChunkIds |->
                                        IF \E k \in 1 .. Len(chunk_ids[i]) :
                                               chunk_ids[i][k] = c
                                        THEN "pending" ELSE "none"]]
                 /\ pc' = [pc EXCEPT ![i] = "running"]
                 /\ trace' = [trace EXCEPT ![i] = @ \o <<"submit">>]
    /\ UNCHANGED <<calls, blobs, output, locks, run_doc, study_area_docs, study_area_name,
                   chunk_ids>>

\* _merge_single_chunk of one submitted chunk id, lines 369-421.
MergeSingleChunk(i, c) ==
    /\ pc[i] = "running"
    /\ results[i][c] = "pending"
    /\ LET missing == \E sc \in run_doc.scenario_ids :
                          [sa |-> study_area_name[i], sc |-> sc, ch |-> c] \notin blobs
       IN  \E r \in {"ok", "ValueError", "Exception"} :
               /\ missing => r # "ok"
               /\ results' = [results EXCEPT ![i][c] = r]
               /\ output' = IF r = "ok"
                            THEN output \cup {[sa |-> study_area_name[i], ch |-> c]}
                            ELSE output
    /\ UNCHANGED <<calls, blobs, locks, run_doc, study_area_docs, pc, study_area_name,
                   chunk_ids, subsets, trace>>

\* Lines 194-219: every worker has ended; the results are inspected in order.
Finish(i) ==
    /\ pc[i] = "running"
    /\ shutdown(results[i])
    /\ LET events == handle_result(inspect(results[i], subsets[i])) IN
        /\ trace' = [trace EXCEPT ![i] = @ \o events]
        /\ locks' = IF \E k \in 1 .. Len(events) : events[k] = "delete_lock"
                    THEN delete_lock(locks, study_area_name[i])
                    ELSE locks
    /\ pc' = [pc EXCEPT ![i] = "done"]
    /\ UNCHANGED <<calls, blobs, output, run_doc, study_area_docs, study_area_name,
                   chunk_ids, subsets, results>>

Next ==
    \/ \E b \in Blobs : WriteBlob(b)
    \/ \E i \in Invocations : \E b \in Blobs : Begin(i, b)
    \/ \E i \in Invocations : GetLock(i)
    \/ \E i \in Invocations : SetLock(i)
    \/ \E i \in Invocations : Dispatch(i)
    \/ \E i \in Invocations : \E c \in ChunkIds : MergeSingleChunk(i, c)
    \/ \E i \in Invocations : Finish(i)

Spec == Init /\ [][Next]_vars

----------------------------------------------------------------------------
(* The coordinator under cancellation: the transport may end an invocation *)
(* at any point between its _set_lock (line 176) and its _delete_lock      *)
(* (lines 204, 208, 211); its worker processes end with it.                *)

Cancel(i) ==
    /\ pc[i] \in {"dispatch", "running"}
    /\ pc' = [pc EXCEPT ![i] = "done"]
    /\ trace' = [trace EXCEPT ![i] = @ \o <<"cancelled">>]
    /\ UNCHANGED <<calls, blobs, output, locks, run_doc, study_area_docs, study_area_name,
                   chunk_ids, subsets, results>>

NextCancel ==
    \/ Next
    \/ \E i \in Invocations : Cancel(i)

SpecCancel == Init /\ [][NextCancel]_vars

----------------------------------------------------------------------------
(* The coordinator when nothing fails: the upstream writes every expected  *)
(* file of the batch once, every write triggers one invocation, the pool   *)
(* is created and every worker that finds its files returns.  `trigger`    *)
(* holds the writes whose invocation has not begun.  An invocation that    *)
(* has ended leaves its place to a later one.                              *)

\* The files the manifest asks for: every scenario of the run document and
\* the first chunk ids up to the number of chunks of the study area.
ExpectedBlobs ==
    {b \in Blobs :
        /\ b.sa \in StudyAreaNames
        /\ b.sc \in run_doc.scenario_ids
        /\ \E k \in 1 .. get_expected_num_chunks(study_area_docs[b.sa]) :
               ChunkIdOrder[k] = b.ch}

InitLive ==
    /\ blobs = {}
    /\ output = {}
    /\ locks = {}
    /\ run_doc \in {d \in RunDocs : d.exists /\ d.scenario_ids \subseteq WrittenScenarioIds}
    /\ study_area_docs \in [StudyAreaNames -> {d \in StudyAreaDocs : d.exists}]
    /\ pc = [i \in Invocations |-> "idle"]
    /\ study_area_name = [i \in Invocations |-> <<>>]
    /\ chunk_ids = [i \in Invocations |-> <<>>]
    /\ subsets = [i \in Invocations |-> <<>>]
    /\ results = [i \in Invocations |-> <<>>]
    /\ trace = [i \in Invocations |-> <<>>]
    /\ trigger = [pc |-> "queue", queue |-> {}]
    /\ chunk_merge = NoChunkMerge
    /\ spatialize = NoSpatialize

\* An expected file of the study area, or a file of another study area of
\* the batch, is written; the write of an expected file triggers an
\* invocation.
WriteTriggers(b) ==
    /\ b \notin blobs
    /\ b \in ExpectedBlobs \/ b.sa \in OtherStudyAreaNames
    /\ blobs' = blobs \cup {b}
    /\ trigger' = IF b \in ExpectedBlobs
                  THEN [trigger EXCEPT !.queue = @ \cup {b}]
                  ELSE trigger
    /\ UNCHANGED <<chunk_merge, spatialize, output, locks, run_doc, study_area_docs, pc,
                   study_area_name, chunk_ids, subsets, results, trace>>

\* The invocation triggered by the write of b begins: lines 95-167.
Receive(i, b) ==
    /\ pc[i] \in {"idle", "done"}
    /\ b \in trigger.queue
    /\ trigger' = [trigger EXCEPT !.queue = @ \ {b}]
    /\ LET g == gate(run_doc, study_area_docs[b.sa], blobs, b.sa) IN
        /\ pc' = [pc EXCEPT ![i] = g.pc]
        /\ trace' = [trace EXCEPT ![i] = g.events]
        /\ chunk_ids' = [chunk_ids EXCEPT ![i] = g.chunk_ids]
    /\ study_area_name' = [study_area_name EXCEPT ![i] = b.sa]
    /\ subsets' = [subsets EXCEPT ![i] = <<>>]
    /\ results' = [results EXCEPT ![i] = <<>>]
    /\ UNCHANGED <<chunk_merge, spatialize, blobs, output, locks, run_doc, study_area_docs>>

\* The pool is created, and a worker whose files exist returns.
DispatchOk(i) == Dispatch(i) /\ pc'[i] = "running"
MergeSingleChunkOk(i, c) ==
    /\ MergeSingleChunk(i, c)
    /\ results'[i][c] =
           IF \E sc \in run_doc.scenario_ids :
                  [sa |-> study_area_name[i], sc |-> sc, ch |-> c] \notin blobs
           THEN "ValueError" ELSE "ok"

NextLive ==
    \/ \E b \in Blobs : WriteTriggers(b)
    \/ \E i \in Invocations : \E b \in Blobs : Receive(i, b)
    \/ \E i \in Invocations : GetLock(i)
    \/ \E i \in Invocations : SetLock(i)
    \/ \E i \in Invocations : DispatchOk(i)
    \/ \E i \in Invocations : \E c \in ChunkIds : MergeSingleChunkOk(i, c)
    \/ \E i \in Invocations : Finish(i)

\* Every triggered invocation is started, and every started invocation and
\* every submitted worker runs on.
FairLive ==
    /\ WF_vars(\E i \in Invocations : \E b \in Blobs : Receive(i, b))
    /\ \A i \in Invocations :
           /\ WF_vars(GetLock(i))
           /\ WF_vars(SetLock(i))
           /\ WF_vars(DispatchOk(i))
           /\ WF_vars(\E c \in ChunkIds : MergeSingleChunkOk(i, c))
           /\ WF_vars(Finish(i))

SpecLive == InitLive /\ [][NextLive]_vars /\ FairLive

----------------------------------------------------------------------------
(* The handling of one triggering object name, lines 95-120, for names of  *)
(* any shape.                                                              *)

InitKey ==
    /\ blobs = {}
    /\ output = {}
    /\ locks = {}
    /\ run_doc \in RunDocs
    /\ study_area_docs \in [StudyAreaNames -> StudyAreaDocs]
    /\ pc = [i \in Invocations |-> "idle"]
    /\ study_area_name = [i \in Invocations |-> <<>>]
    /\ chunk_ids = [i \in Invocations |-> <<>>]
    /\ subsets = [i \in Invocations |-> <<>>]
    /\ results = [i \in Invocations |-> <<>>]
    /\ trace = [i \in Invocations |-> <<>>]
    /\ trigger \in {[name |-> n, pc |-> "received", events |-> <<>>] : n \in KeyNames}
    /\ chunk_merge = NoChunkMerge
    /\ spatialize = NoSpatialize

\* Lines 95-106: the name is matched against the pattern.
MatchObjectName ==
    /\ trigger.pc = "received"
    /\ trigger' = IF re_match(trigger.name).matched
                  THEN [trigger EXCEPT !.pc = "manifest"]
                  ELSE [trigger EXCEPT !.pc = "done",
                                       !.events = <<"log_WARNING_invalid_object_name",
                                                    "return">>]
    /\ UNCHANGED <<coordinator, chunk_merge, spatialize>>

\* Lines 115-120: the run document and the study-area document are read.
LoadManifest ==
    /\ trigger.pc = "manifest"
    /\ LET sa == re_match(trigger.name).study_area_name
           found == /\ run_doc.exists
                    /\ sa \in StudyAreaNames
                    /\ study_area_docs[sa].exists
       IN  trigger' =
               IF found
               THEN [trigger EXCEPT !.pc = "list_blobs",
                                    !.events = <<"get_run_doc", "get_study_area_doc">>]
               ELSE [trigger EXCEPT
                        !.pc = "done",
                        !.events = (IF run_doc.exists
                                    THEN <<"get_run_doc", "get_study_area_doc">>
                                    ELSE <<"get_run_doc">>)
                                   \o <<"log_ERROR_metadata_missing", "return">>]
    /\ UNCHANGED <<coordinator, chunk_merge, spatialize>>

NextKey == MatchObjectName \/ LoadManifest

SpecKey == InitKey /\ [][NextKey]_vars

----------------------------------------------------------------------------
(* The lock documents of invocations of different batches, lines 47-79 and *)
(* 169-211.  Every invocation has passed the completeness gate; its model  *)
(* id and its study area name are any strings matched by [^/]+ that are    *)
(* made of the characters "a" and "-"; `trigger` holds the model ids.  The *)
(* merge between _set_lock and _delete_lock is one step.                   *)

MaxComponentLen == 2
Components ==
    UNION {[1 .. n -> {"a", "-"}] : n \in 1 .. MaxComponentLen}

\* The document id of invocation i.
LockKey(i) ==
    lock_document_id(<<"b">>, <<"t">>, trigger.model_id[i], study_area_name[i])

InitLock ==
    /\ blobs = {}
    /\ output = {}
    /\ locks = {}
    /\ run_doc \in {d \in RunDocs : ~d.exists}
    /\ study_area_docs \in [StudyAreaNames -> {d \in StudyAreaDocs : ~d.exists}]
    /\ pc = [i \in Invocations |-> "get_lock"]
    /\ study_area_name \in [Invocations -> Components]
    /\ chunk_ids = [i \in Invocations |-> <<>>]
    /\ subsets = [i \in Invocations |-> <<>>]
    /\ results = [i \in Invocations |-> <<>>]
    /\ trace = [i \in Invocations |-> <<>>]
    /\ \E ms \in [Invocations -> Components] : trigger = [pc |-> "lock", model_id |-> ms]
    /\ chunk_merge = NoChunkMerge
    /\ spatialize = NoSpatialize

\* _get_lock and lines 169-175.
LockGet(i) ==
    /\ pc[i] = "get_lock"
    /\ IF \E l \in locks : l.id = LockKey(i)
       THEN /\ pc' = [pc EXCEPT ![i] = "done"]
            /\ trace' = [trace EXCEPT ![i] =
                            @ \o <<"log_WARNING_already_running", "return">>]
       ELSE /\ pc' = [pc EXCEPT ![i] = "set_lock"]
            /\ trace' = trace
    /\ UNCHANGED <<calls, blobs, output, locks, run_doc, study_area_docs, study_area_name,
                   chunk_ids, subsets, results>>

\* _set_lock, line 176.
LockSet(i) ==
    /\ pc[i] = "set_lock"
    /\ IF \E l \in locks : l.id = LockKey(i)
       THEN /\ pc' = [pc EXCEPT ![i] = "done"]
            /\ trace' = [trace EXCEPT ![i] = @ \o <<"create_Conflict", "raise">>]
            /\ locks' = locks
       ELSE /\ pc' = [pc EXCEPT ![i] = "dispatch"]
            /\ trace' = [trace EXCEPT ![i] = @ \o <<"set_lock">>]
            /\ locks' = locks \cup {[id |-> LockKey(i), owner |-> i]}
    /\ UNCHANGED <<calls, blobs, output, run_doc, study_area_docs, study_area_name,
                   chunk_ids, subsets, results>>

\* The merge, then _delete_lock, lines 178-211.
LockDelete(i) ==
    /\ pc[i] = "dispatch"
    /\ pc' = [pc EXCEPT ![i] = "done"]
    /\ trace' = [trace EXCEPT ![i] = @ \o <<"delete_lock", "return">>]
    /\ locks' = {l \in locks : l.id # LockKey(i)}
    /\ UNCHANGED <<calls, blobs, output, run_doc, study_area_docs, study_area_name,
                   chunk_ids, subsets, results>>

NextLock ==
    \/ \E i \in Invocations : LockGet(i)
    \/ \E i \in Invocations : LockSet(i)
    \/ \E i \in Invocations : LockDelete(i)

SpecLock == InitLock /\ [][NextLock]_vars

----------------------------------------------------------------------------
(* trigger_export_pipeline of climateiq_trigger_export_pipeline_cf/main.py *)
(* from line 103 on: every input file has been listed; one file per chunk  *)
(* is written, then one spatialize task per written file is created.       *)
(* `trigger` holds the invocation: the outcome of every _write_file and of *)
(* every create_task, by the place of its file in output_filenames.        *)

MaxOutputFiles == 4
OutputFiles == 1 .. MaxOutputFiles

\* future.result() of every future of a list, in order: the first exception
\* leaves the loop, "ok" if none does.
first_exception(fs) ==
    IF \A k \in DOMAIN fs : fs[k] = "ok" THEN "ok"
    ELSE fs[CHOOSE k \in DOMAIN fs : fs[k] # "ok" /\ \A j \in DOMAIN fs : j < k => fs[j] = "ok"]

InitExport ==
    /\ blobs = {}
    /\ output = {}
    /\ locks = {}
    /\ run_doc \in {d \in RunDocs : ~d.exists}
    /\ study_area_docs \in [StudyAreaNames -> {d \in StudyAreaDocs : ~d.exists}]
    /\ pc = [i \in Invocations |-> "idle"]
    /\ study_area_name = [i \in Invocations |-> <<>>]
    /\ chunk_ids = [i \in Invocations |-> <<>>]
    /\ subsets = [i \in Invocations |-> <<>>]
    /\ results = [i \in Invocations |-> <<>>]
    /\ trace = [i \in Invocations |-> <<>>]
    /\ \E n \in 0 .. MaxOutputFiles :
           trigger = [pc |-> "writing",
                      write_futures |-> [k \in 1 .. n |-> "pending"],
                      queue_futures |-> [k \in 1 .. n |-> "none"],
                      events |-> <<"log_DEBUG_starting">>]
    /\ chunk_merge = NoChunkMerge
    /\ spatialize = NoSpatialize

\* _write_file of the k-th line, lines 30-34, submitted at lines 116-118.
WriteFile(k) ==
    /\ trigger.pc = "writing"
    /\ k \in DOMAIN trigger.write_futures
    /\ trigger.write_futures[k] = "pending"
    /\ \E r \in {"ok", "Exception"} :
           trigger' = [trigger EXCEPT !.write_futures[k] = r]
    /\ UNCHANGED <<coordinator, chunk_merge, spatialize>>

\* Lines 121-163: the pool of the writes has been left, so every write has
\* ended; the first exception of write_futures is raised, otherwise the
\* tasks are submitted.
SubmitTasks ==
    /\ trigger.pc = "writing"
    /\ \A k \in DOMAIN trigger.write_futures : trigger.write_futures[k] # "pending"
    /\ trigger' =
           IF first_exception(trigger.write_futures) # "ok"
           THEN [trigger EXCEPT !.pc = "done", !.events = @ \o <<"raise">>]
           ELSE [trigger EXCEPT
                    !.pc = "enqueueing",
                    !.events = @ \o <<"log_DEBUG_created">>,
                    !.queue_futures = [k \in DOMAIN trigger.queue_futures |-> "pending"]]
    /\ UNCHANGED <<coordinator, chunk_merge, spatialize>>

\* tasks_client.create_task for the k-th file, lines 152-162.
CreateTask(k) ==
    /\ trigger.pc = "enqueueing"
    /\ k \in DOMAIN trigger.queue_futures
    /\ trigger.queue_futures[k] = "pending"
    /\ \E r \in {"ok", "Exception"} :
           trigger' = [trigger EXCEPT !.queue_futures[k] = r]
    /\ UNCHANGED <<coordinator, chunk_merge, spatialize>>

\* Lines 164-175: the pool of the tasks has been left; the loop of line 166
\* calls result() on the futures of write_futures.
LogTriggered ==
    /\ trigger.pc = "enqueueing"
    /\ \A k \in DOMAIN trigger.queue_futures : trigger.queue_futures[k] # "pending"
    /\ trigger' =
           IF first_exception(trigger.write_futures) # "ok"
           THEN [trigger EXCEPT !.pc = "done", !.events = @ \o <<"raise">>]
           ELSE [trigger EXCEPT !.pc = "done",
                                !.events = @ \o <<"log_DEBUG_triggered", "return">>]
    /\ UNCHANGED <<coordinator, chunk_merge, spatialize>>

NextExport ==
    \/ \E k \in OutputFiles : WriteFile(k)
    \/ SubmitTasks
    \/ \E k \in OutputFiles : CreateTask(k)
    \/ LogTriggered

SpecExport == InitExport /\ [][NextExport]_vars

----------------------------------------------------------------------------
(* The reading of the manifest, lines 115-120 with lines 222-251, for      *)
(* documents that may lack a field.                                        *)

\* Documents with the set of the fields they hold.
RunDocsWithFields ==
    {[exists |-> FALSE, fields |-> {}, scenario_ids |-> {}]}
        \cup {[exists |-> TRUE, fields |-> {}, scenario_ids |-> {}]}
        \cup {[exists |-> TRUE, fields |-> {"scenario_ids"}, scenario_ids |-> S] :
                 S \in ExpectedScenarioIds}
StudyAreaDocsWithFields ==
    {[exists |-> FALSE, fields |-> {}, chunk_x_count |-> 0, chunk_y_count |-> 0]}
        \cup {[exists |-> TRUE, fields |-> F,
               chunk_x_count |-> IF "chunk_x_count" \in F THEN x ELSE 0,
               chunk_y_count |-> IF "chunk_y_count" \in F THEN y ELSE 0] :
                 F \in SUBSET {"chunk_x_count", "chunk_y_count"},
                 x \in 1 .. MaxChunkXCount, y \in 1 .. MaxChunkXCount}

\* DocumentSnapshot.get(field_path) of a document that exists: the value, or
\* a KeyError when the document holds no such field.
snapshot_get(doc, field_path) ==
    IF field_path \in doc.fields THEN "value" ELSE "KeyError"

\* _get_expected_scenario_ids, lines 222-238, and _get_expected_num_chunks,
\* lines 241-251: what the call ends in.
expected_scenario_ids_outcome(doc) ==
    IF ~doc.exists THEN "ValueError"
    ELSE IF snapshot_get(doc, "scenario_ids") = "KeyError" THEN "KeyError"
    ELSE "value"
expected_num_chunks_outcome(doc) ==
    IF ~doc.exists THEN "ValueError"
    ELSE IF snapshot_get(doc, "chunk_x_count") = "KeyError" THEN "KeyError"
    ELSE IF snapshot_get(doc, "chunk_y_count") = "KeyError" THEN "KeyError"
    ELSE "value"

\* The try block of lines 115-120 on the outcome of a call: a ValueError is
\* logged and the invocation returns, any other exception leaves the
\* function.
manifest_handler(outcome) ==
    IF outcome = "ValueError" THEN <<"log_ERROR_metadata_missing", "return">>
    ELSE IF outcome = "KeyError" THEN <<"raise">>
    ELSE <<>>

InitManifest ==
    /\ blobs = {}
    /\ output = {}
    /\ locks = {}
    /\ run_doc \in RunDocsWithFields
    /\ study_area_docs \in [StudyAreaNames -> StudyAreaDocsWithFields]
    /\ pc = [i \in Invocations |-> "idle"]
    /\ study_area_name = [i \in Invocations |-> <<>>]
    /\ chunk_ids = [i \in Invocations |-> <<>>]
    /\ subsets = [i \in Invocations |-> <<>>]
    /\ results = [i \in Invocations |-> <<>>]
    /\ trace = [i \in Invocations |-> <<>>]
    /\ trigger = [name |-> Dirs(5, 0) \o <<"c0", ".csv">>, pc |-> "run_doc", events |-> <<>>]
    /\ chunk_merge = NoChunkMerge
    /\ spatialize = NoSpatialize

\* Line 116.
GetExpectedScenarioIdsOfRun ==
    /\ trigger.pc = "run_doc"
    /\ LET events == manifest_handler(expected_scenario_ids_outcome(run_doc)) IN
        trigger' = [trigger EXCEPT
                       !.pc = IF events = <<>> THEN "study_area_doc" ELSE "done",
                       !.events = <<"get_run_doc">> \o events]
    /\ UNCHANGED <<coordinator, chunk_merge, spatialize>>

\* Line 117.
GetExpectedNumChunks ==
    /\ trigger.pc = "study_area_doc"
    /\ LET sa == re_match(trigger.name).study_area_name
           events == manifest_handler(expected_num_chunks_outcome(study_area_docs[sa]))
       IN  trigger' = [trigger EXCEPT
                          !.pc = IF events = <<>> THEN "list_blobs" ELSE "done",
                          !.events = @ \o <<"get_study_area_doc">> \o events]
    /\ UNCHANGED <<coordinator, chunk_merge, spatialize>>

NextManifest == GetExpectedScenarioIdsOfRun \/ GetExpectedNumChunks

SpecManifest == InitManifest /\ [][NextManifest]_vars

----------------------------------------------------------------------------
(* One call of _merge_single_chunk, with the scenario list of the run      *)
(* document and the files of the chunk in the input bucket.                *)

InitMerge ==
    /\ blobs = {}
    /\ output = {}
    /\ locks = {}
    /\ run_doc = [exists |-> TRUE, scenario_ids |-> {}]
    /\ study_area_docs = [sa \in StudyAreaNames |->
                             [exists |-> TRUE, chunk_x_count |-> 1, chunk_y_count |-> 1]]
    /\ pc = [i \in Invocations |-> "idle"]
    /\ study_area_name = [i \in Invocations |-> <<>>]
    /\ chunk_ids = [i \in Invocations |-> <<>>]
    /\ subsets = [i \in Invocations |-> <<>>]
    /\ results = [i \in Invocations |-> <<>>]
    /\ trace = [i \in Invocations |-> <<>>]
    /\ trigger = NoTrigger
    /\ \E ids \in ScenarioIdLists :
       \E files \in [{ids[k] : k \in 1 .. Len(ids)} -> FileContents] :
           chunk_merge = [pc |-> "start", run_scenario_ids |-> ids, files |-> files,
                          chunk_id |-> "c0", scenario_ids |-> <<>>,
                          result |-> [status |-> "none"]]
    /\ spatialize = NoSpatialize

\* _get_expected_scenario_ids, lines 222-238.
GetExpectedScenarioIds ==
    /\ chunk_merge.pc = "start"
    /\ chunk_merge' =
           [chunk_merge EXCEPT
               !.pc = "merge",
               !.scenario_ids = get_expected_scenario_ids(chunk_merge.run_scenario_ids)]
    /\ UNCHANGED <<coordinator, trigger, spatialize>>

\* _merge_single_chunk, lines 369-421.
MergeChunk ==
    /\ chunk_merge.pc = "merge"
    /\ chunk_merge' =
           [chunk_merge EXCEPT
               !.pc = "done",
               !.result = merge_single_chunk(chunk_merge.scenario_ids,
                                             chunk_merge.chunk_id, chunk_merge.files)]
    /\ UNCHANGED <<coordinator, trigger, spatialize>>

NextMerge == GetExpectedScenarioIds \/ MergeChunk

SpecMerge == InitMerge /\ [][NextMerge]_vars

----------------------------------------------------------------------------
(* One invocation of spatialize_chunk_predictions for the chunk at grid    *)
(* position `at`, cut at its reads of the stores; the neighbors are        *)
(* visited in any order (the code iterates over a set).                    *)

PrimaryKinds == {"ok", "predictions_missing", "too_many_predictions",
                 "study_area_missing", "study_area_invalid",
                 "chunk_missing", "chunk_invalid"}
NeighborKinds == {"ok", "missing", "invalid", "no_predictions", "not_found",
                  "wrong_shape"}
RasterShapes(shape) == {shape, <<shape[2], shape[1]>>, <<shape[1], shape[2] + 1>>}
\* The neighbors of `at` that lie in the grid of the study area.
InBounds(grid, at) ==
    {n \in neighbors_of(at[1], at[2]) :
        0 <= n[1] /\ n[1] < grid[1] /\ 0 <= n[2] /\ n[2] < grid[2]}

\* Every grid position that is a neighbor of some chunk.
Positions ==
    UNION {neighbors_of(x, y) : <<x, y>> \in
              UNION {(0 .. grid[1] - 1) \X (0 .. grid[2] - 1) : grid \in GridCounts}}

\* The predictions file of the neighbor at position n.
NeighborRaster(n, shape, kind) ==
    Raster(shape[1], IF kind = "wrong_shape" THEN shape[2] + 1 ELSE shape[2],
           (n[1] + n[2]) % (MaxPrediction + 1))

InitSpatialize ==
    /\ blobs = {}
    /\ output = {}
    /\ locks = {}
    /\ run_doc = [exists |-> TRUE, scenario_ids |-> {}]
    /\ study_area_docs = [sa \in StudyAreaNames |->
                             [exists |-> TRUE, chunk_x_count |-> 1, chunk_y_count |-> 1]]
    /\ pc = [i \in Invocations |-> "idle"]
    /\ study_area_name = [i \in Invocations |-> <<>>]
    /\ chunk_ids = [i \in Invocations |-> <<>>]
    /\ subsets = [i \in Invocations |-> <<>>]
    /\ results = [i \in Invocations |-> <<>>]
    /\ trace = [i \in Invocations |-> <<>>]
    /\ trigger = NoTrigger
    /\ chunk_merge = NoChunkMerge
    /\ \E grid \in GridCounts, shape \in ChunkShapes :
       \E at \in (0 .. grid[1] - 1) \X (0 .. grid[2] - 1) :
       \E primary \in PrimaryKinds, raster_shape \in RasterShapes(shape),
          seed \in Predictions :
       \E faults \in [InBounds(grid, at) -> NeighborKinds] :
           /\ Cardinality({n \in InBounds(grid, at) : faults[n] # "ok"}) <= MaxFaults
           /\ primary # "ok" =>
                  /\ raster_shape = shape
                  /\ seed = 0
                  /\ \A n \in InBounds(grid, at) : faults[n] = "ok"
           /\ spatialize =
                  [pc |-> "read_predictions", grid |-> grid, shape |-> shape, at |-> at,
                   primary |-> primary,
                   predictions |-> Raster(raster_shape[1], raster_shape[2], seed),
                   faults |-> faults, points |-> <<>>, frame |-> <<>>,
                   boundary_h3_cells |-> {}, remaining |-> {}, queried |-> {},
                   read |-> {}, series |-> <<>>, error |-> <<>>,
                   csv |-> [written |-> FALSE, rows |-> <<>>]]

\* The error is logged and the invocation goes on to write what it has.
raised_swallowed(st, error) ==
    [st EXCEPT !.pc = "write", !.error = error, !.series = groupby_max(st.frame)]

\* Lines 78-81: the exception leaves spatialize_chunk_predictions; a
\* ValueError is caught and raised again as a ValueError.
raised(st, error) == [st EXCEPT !.pc = "raised", !.error = error]

\* _read_chunk_predictions, lines 97-125.
ReadChunkPredictions ==
    /\ spatialize.pc = "read_predictions"
    /\ spatialize' =
           IF spatialize.primary = "predictions_missing"
           THEN raised(spatialize, <<"MissingPredictions", spatialize.at>>)
           ELSE IF spatialize.primary = "too_many_predictions"
           THEN raised(spatialize, <<"TooManyPredictions", spatialize.at>>)
           ELSE [spatialize EXCEPT !.pc = "study_area"]
    /\ UNCHANGED <<coordinator, trigger, chunk_merge>>

\* _get_study_area_metadata, lines 156-198.
GetStudyAreaMetadata ==
    /\ spatialize.pc = "study_area"
    /\ spatialize' =
           IF spatialize.primary = "study_area_missing"
           THEN raised(spatialize, <<"MissingMetadata", "study_area">>)
           ELSE IF spatialize.primary = "study_area_invalid"
           THEN raised(spatialize, <<"InvalidMetadata", "study_area">>)
           ELSE [spatialize EXCEPT !.pc = "chunk"]
    /\ UNCHANGED <<coordinator, trigger, chunk_merge>>

\* _get_chunk_metadata, lines 220-247.
GetChunkMetadata ==
    /\ spatialize.pc = "chunk"
    /\ spatialize' =
           IF spatialize.primary = "chunk_missing"
           THEN raised(spatialize, <<"MissingMetadata", "chunk">>)
           ELSE IF spatialize.primary = "chunk_invalid"
           THEN raised(spatialize, <<"InvalidMetadata", "chunk">>)
           ELSE [spatialize EXCEPT !.pc = "build"]
    /\ UNCHANGED <<coordinator, trigger, chunk_merge>>

\* _build_spatialized_model_predictions of the primary chunk, lines 67-69.
BuildSpatializedModelPredictions ==
    /\ spatialize.pc = "build"
    /\ LET built == build_spatialized_model_predictions(
                        study_area_metadata_of(spatialize.grid),
                        chunk_metadata_of(spatialize.at, spatialize.shape),
                        spatialize.predictions)
       IN  spatialize' =
               IF built.raised
               THEN raised(spatialize, <<"ValueError_DataFrame", spatialize.at>>)
               ELSE [spatialize EXCEPT !.pc = "h3", !.points = built.points]
    /\ UNCHANGED <<coordinator, trigger, chunk_merge>>

\* _calculate_h3_indexes, lines 471-502, and the start of
\* _aggregate_h3_predictions, lines 546-564.
CalculateH3Indexes ==
    /\ spatialize.pc = "h3"
    /\ LET frame == retained_rows(
                        spatialize.points,
                        get_chunk_boundary(study_area_metadata_of(spatialize.grid),
                                           chunk_metadata_of(spatialize.at,
                                                             spatialize.shape)))
           boundary_h3_cells == boundary_h3_cells_of(frame)
       IN  spatialize' =
               IF no_boundary_cells(boundary_h3_cells)
               THEN [spatialize EXCEPT !.pc = "write", !.frame = frame,
                                       !.series = groupby_max(frame)]
               ELSE [spatialize EXCEPT
                        !.pc = "neighbors", !.frame = frame,
                        !.boundary_h3_cells = boundary_h3_cells,
                        !.remaining = neighbors_of(spatialize.at[1], spatialize.at[2])]
    /\ UNCHANGED <<coordinator, trigger, chunk_merge>>

\* One iteration of the loop over neighbors, lines 568-642.
VisitNeighbor(n) ==
    /\ spatialize.pc = "neighbors"
    /\ n \in spatialize.remaining
    /\ LET sam == study_area_metadata_of(spatialize.grid)
           kind == IF n \in DOMAIN spatialize.faults THEN spatialize.faults[n]
                   ELSE "missing"
           neighbor_chunk_metadata == chunk_metadata_of(n, spatialize.shape)
           neighbor_chunk_boundary == get_chunk_boundary(sam, neighbor_chunk_metadata)
           cuts == \E h \in spatialize.boundary_h3_cells :
                       intersects(h3_to_geo_boundary(h), neighbor_chunk_boundary)
           built == build_spatialized_model_predictions(
                        sam, neighbor_chunk_metadata,
                        NeighborRaster(n, spatialize.shape, kind))
           visited == [spatialize EXCEPT !.remaining = @ \ {n}, !.queried = @ \cup {n}]
       IN  spatialize' =
               IF outside_study_area(sam, n)
               THEN [spatialize EXCEPT !.remaining = @ \ {n}]
               ELSE IF kind = "missing"
               THEN raised(visited, <<"MissingNeighbor", n>>)
               ELSE IF kind = "invalid"
               THEN raised(visited, <<"InvalidNeighborMetadata", n>>)
               ELSE IF ~cuts
               THEN visited
               ELSE IF kind = "no_predictions"
               THEN raised([visited EXCEPT !.read = @ \cup {n}],
                           <<"MissingPredictions", n>>)
               ELSE IF kind = "not_found"
               THEN raised([visited EXCEPT !.read = @ \cup {n}], <<"NotFound", n>>)
               ELSE IF built.raised
               THEN raised([visited EXCEPT !.read = @ \cup {n}],
                           <<"ValueError_DataFrame", n>>)
               ELSE [visited EXCEPT
                        !.read = @ \cup {n},
                        !.frame = @ \o neighbor_rows(built.points, spatialize.frame)]
    /\ UNCHANGED <<coordinator, trigger, chunk_merge>>

\* Lines 644-647: the loop is over.
AggregateH3Predictions ==
    /\ spatialize.pc = "neighbors"
    /\ spatialize.remaining = {}
    /\ spatialize' = [spatialize EXCEPT !.pc = "write",
                                        !.series = groupby_max(spatialize.frame)]
    /\ UNCHANGED <<coordinator, trigger, chunk_merge>>

\* Lines 83-92: the CSV of the chunk is written.
WriteOutput ==
    /\ spatialize.pc = "write"
    /\ spatialize' = [spatialize EXCEPT
                         !.pc = "returned",
                         !.csv = [written |-> TRUE, rows |-> spatialize.series]]
    /\ UNCHANGED <<coordinator, trigger, chunk_merge>>

NextSpatialize ==
    \/ ReadChunkPredictions
    \/ GetStudyAreaMetadata
    \/ GetChunkMetadata
    \/ BuildSpatializedModelPredictions
    \/ CalculateH3Indexes
    \/ \E n \in Positions : VisitNeighbor(n)
    \/ AggregateH3Predictions
    \/ WriteOutput

SpecSpatialize == InitSpatialize /\ [][NextSpatialize]_vars

----------------------------------------------------------------------------
(* Vocabulary of the properties.                                           *)

Done(i) == pc[i] = "done"
Has(i, e) == \E k \in 1 .. Len(trace[i]) : trace[i][k] = e
Index(i, e) == CHOOSE k \in 1 .. Len(trace[i]) : trace[i][k] = e
Returned(i) == Done(i) /\ Len(trace[i]) > 0 /\ trace[i][Len(trace[i])] = "return"
Raised(i) == Done(i) /\ Len(trace[i]) > 0 /\ trace[i][Len(trace[i])] = "raise"
HoldsLock(i) == \E l \in locks : l.owner = i

\* The result of the worker of the k-th submitted chunk subset.
WorkerResult(i, k) == merge_chunk_set(results[i], subsets[i][k])
WorkerFailed(i, r) ==
    /\ Has(i, "submit")
    /\ \A c \in ChunkIds : results[i][c] # "pending"
    /\ \E k \in 1 .. Len(subsets[i]) : WorkerResult(i, k) = r

\* The step Begin of invocation i, and the listing it works on.
BeginStep(i) == pc[i] = "idle" /\ pc'[i] # "idle"
Listing(sa) == get_chunk_ids_to_scenario_id(list_blobs(blobs, sa))
ManifestOf(sa) == run_doc.exists /\ study_area_docs[sa].exists
ExpectedNumChunks(sa) == get_expected_num_chunks(study_area_docs[sa])

----------------------------------------------------------------------------
\* C1: every invocation that has ended and had created the lock document has
\* deleted it, and the document it created is no longer in the store.
C1_LockDeletedOnEveryExit ==
    \A i \in Invocations :
        (Done(i) /\ Has(i, "set_lock")) => (Has(i, "delete_lock") /\ ~HoldsLock(i))

\* Between a successful _set_lock and the _delete_lock.
InMerge(i) == pc[i] \in {"dispatch", "running"}

\* C2: mutual exclusion: two invocations of the same batch and study area are
\* never both between their successful _set_lock and their _delete_lock, and
\* the lock document in the store belongs to the one that is.
C2_MutualExclusion ==
    \A i, j \in Invocations :
        (i # j /\ study_area_name[i] = study_area_name[j] /\ InMerge(i))
            => (~InMerge(j) /\ HoldsLock(i) /\ ~HoldsLock(j))

\* C2 witness: one invocation merges while another, which had passed the
\* _get_lock check too, was refused by _set_lock.
C2_Witness ==
    \E i, j \in Invocations :
        i # j /\ pc[i] = "running" /\ Has(j, "create_Conflict")

\* The listing m is Complete for the manifest, with dispatched chunk ids `ids`.
Complete(m, expected, n, ids) ==
    /\ DOMAIN m = expected
    /\ \A sc \in DOMAIN m : ListLen(m[sc]) = n
    /\ \A sc \in DOMAIN m : DOMAIN m[sc] = {ids[k] : k \in 1 .. Len(ids)}

\* C3: an invocation goes on to the lock only from a listing that is Complete:
\* the scenario ids listed are the expected ones, every scenario lists exactly
\* the expected number of chunk files, and every scenario's chunk-id set is the
\* set of the chunk ids that are dispatched; from any other listing it ends
\* and leaves the locks alone.
C3_LockOnlyWhenComplete ==
    [][\A i \in Invocations :
        BeginStep(i) =>
            LET sa == study_area_name'[i] IN
            /\ locks' = locks
            /\ pc'[i] \in {"get_lock", "done"}
            /\ pc'[i] = "get_lock" =>
                /\ ManifestOf(sa)
                /\ Complete(Listing(sa), run_doc.scenario_ids,
                            ExpectedNumChunks(sa), chunk_ids'[i])]_vars

\* C4: an invocation one of whose workers failed with an exception that is
\* not a ValueError ends by raising.
C4_UnexpectedNeverSwallowed ==
    \A i \in Invocations :
        (Done(i) /\ WorkerFailed(i, "Exception")) => Raised(i)

\* C5, as stated: an invocation one of whose workers failed with a ValueError
\* deletes the lock, logs the error and returns.
C5_ValueErrorReturns ==
    \A i \in Invocations :
        (Done(i) /\ WorkerFailed(i, "ValueError"))
            => (Returned(i) /\ Has(i, "delete_lock") /\ Has(i, "log_ERROR_worker"))

\* C5, amended: an invocation one of whose workers failed with a ValueError,
\* and none of whose workers failed with another exception, deletes the lock,
\* logs the error and returns; the lock it created is gone.
C5_ValueErrorOnlyReturns ==
    \A i \in Invocations :
        (Done(i) /\ WorkerFailed(i, "ValueError") /\ ~WorkerFailed(i, "Exception"))
            => /\ Returned(i)
               /\ Has(i, "delete_lock")
               /\ Has(i, "log_ERROR_worker")
               /\ Index(i, "delete_lock") < Index(i, "log_ERROR_worker")
               /\ ~HoldsLock(i)

C5_Witness ==
    \E i \in Invocations :
        /\ Done(i)
        /\ WorkerFailed(i, "ValueError")
        /\ ~WorkerFailed(i, "Exception")
        /\ Returned(i)
        /\ \E c \in ChunkIds, sc \in run_doc.scenario_ids :
               /\ results[i][c] = "ValueError"
               /\ [sa |-> study_area_name[i], sc |-> sc, ch |-> c] \notin blobs

\* C6: when the exception of a worker propagates out of an invocation, the lock
\* was deleted before the raise, and the lock document the invocation created
\* is not in the store.
C6_DeleteBeforeRaise ==
    \A i \in Invocations :
        (Raised(i) /\ WorkerFailed(i, "Exception"))
            => /\ Has(i, "delete_lock")
               /\ Index(i, "delete_lock") < Index(i, "raise")
               /\ ~HoldsLock(i)

C6_Witness ==
    \E i \in Invocations :
        /\ Raised(i)
        /\ WorkerFailed(i, "Exception")
        /\ Has(i, "set_lock")
        /\ Has(i, "delete_lock")

\* A step of the lock acquisition of invocation i: the get or the create.
AcquireStep(i) == pc[i] \in {"get_lock", "set_lock"} /\ pc'[i] # pc[i]

\* C7: an invocation with complete inputs that takes a step of its lock
\* acquisition (the get or the create) while the lock document exists logs and
\* returns: it ends without raising, and leaves the locks, the output bucket
\* and the workers alone.
C7_HeldLockConcedes ==
    [][\A i \in Invocations :
        (AcquireStep(i) /\ get_lock(locks, study_area_name[i]))
            => /\ pc'[i] = "done"
               /\ trace'[i] = trace[i] \o <<"log_WARNING_already_running", "return">>
               /\ locks' = locks
               /\ output' = output
               /\ subsets' = subsets]_vars

\* C8: when more distinct scenario ids are listed than are expected, the
\* invocation ends on the ValueError "more scenario_ids than expected".
C8_TooManyScenariosRaises ==
    [][\A i \in Invocations :
        LET sa == study_area_name'[i] IN
        (/\ BeginStep(i)
         /\ ManifestOf(sa)
         /\ Cardinality(DOMAIN Listing(sa)) > Cardinality(run_doc.scenario_ids))
            => /\ files_complete(run_doc.scenario_ids, ExpectedNumChunks(sa),
                                 Listing(sa)) = "ValueError_scenarios"
               /\ trace'[i] = <<"log_ERROR_more_scenario_ids", "return">>]_vars

\* C9: when a listed scenario has more chunk files than expected, the
\* completeness check raises a ValueError (never True, never False), the
\* invocation logs it and returns, and the locks are left alone.
C9_TooManyChunksRaises ==
    [][\A i \in Invocations :
        LET sa == study_area_name'[i] IN
        (/\ BeginStep(i)
         /\ ManifestOf(sa)
         /\ \E sc \in DOMAIN Listing(sa) :
                ListLen(Listing(sa)[sc]) > ExpectedNumChunks(sa))
            => /\ files_complete(run_doc.scenario_ids, ExpectedNumChunks(sa),
                                 Listing(sa))
                      \in {"ValueError_scenarios", "ValueError_chunks"}
               /\ pc'[i] = "done"
               /\ trace'[i] \in {<<"log_ERROR_more_scenario_ids", "return">>,
                                 <<"log_ERROR_more_chunks", "return">>}
               /\ locks' = locks]_vars

C9_Witness ==
    \E i \in Invocations :
        /\ trace[i] = <<"log_ERROR_more_chunks", "return">>
        /\ Done(i)
        /\ locks = {}
        /\ \E sc \in DOMAIN Listing(study_area_name[i]) :
               ListLen(Listing(study_area_name[i])[sc])
                   > ExpectedNumChunks(study_area_name[i])

\* Nothing listed exceeds the manifest, and something expected is not there yet.
NotYetComplete(m, expected, n) ==
    /\ DOMAIN m \subseteq expected
    /\ \A sc \in DOMAIN m : ListLen(m[sc]) <= n
    /\ \/ DOMAIN m # expected
       \/ \E sc \in DOMAIN m : ListLen(m[sc]) < n

----------------------------------------------------------------------------
\* C11: when the run document or the study-area document does not exist, the
\* first step of an invocation ends it with an error log and a return; the
\* result is the same for every content of the bucket (nothing is listed),
\* and the locks and the outputs are left as they were.
C11_MissingManifestStops ==
    [][\A i \in Invocations :
          (BeginStep(i) /\ ~ManifestOf(study_area_name'[i])) =>
              /\ pc'[i] = "done"
              /\ trace'[i] = <<"log_ERROR_metadata_missing", "return">>
              /\ \A store \in SUBSET Blobs :
                     gate(run_doc, study_area_docs[study_area_name'[i]], store,
                          study_area_name'[i]).events = trace'[i]
              /\ locks' = locks
              /\ output' = output]_vars

\* The study-area document is the missing one and the inputs are complete.
C11_Witness ==
    \E i \in Invocations :
        /\ trace[i] = <<"log_ERROR_metadata_missing", "return">>
        /\ run_doc.exists
        /\ ~study_area_docs[study_area_name[i]].exists
        /\ \A sc \in run_doc.scenario_ids :
               [sa |-> study_area_name[i], sc |-> sc, ch |-> "c0"] \in blobs

----------------------------------------------------------------------------
\* The names of the form
\* <batch_id>/<prediction_type>/<model_id>/<study_area>/<scenario_id>/<chunk_id>.csv
OfTheForm(name) ==
    /\ Cardinality(SlashesOf(name)) = 5
    /\ \A n \in 1 .. 6 : Part(name, n) # <<>>
    /\ Len(Part(name, 6)) >= 2
    /\ Part(name, 6)[Len(Part(name, 6))] = ".csv"

\* C12: once a triggering name that is not of the form
\* <batch_id>/<prediction_type>/<model_id>/<study_area>/<scenario_id>/<chunk_id>.csv
\* has been handled, the invocation has only logged and returned: it has
\* read no metadata document and gone no further.
C12_MalformedKeyIgnored ==
    (trigger.pc \notin {"none", "received"} /\ ~OfTheForm(trigger.name)) =>
        /\ trigger.pc = "done"
        /\ trigger.events = <<"log_WARNING_invalid_object_name", "return">>

----------------------------------------------------------------------------
\* The call of _merge_single_chunk under study: the expected scenarios, the
\* hex indices of their files, and the scenarios whose file lacks a hex.
MergeDone == chunk_merge.pc = "done"
ExpectedIds == {chunk_merge.run_scenario_ids[k] :
                   k \in 1 .. Len(chunk_merge.run_scenario_ids)}
HexesOfFile(sc) == {chunk_merge.files[sc].rows[n].h3_index :
                       n \in 1 .. Len(chunk_merge.files[sc].rows)}
HexesRead == UNION {HexesOfFile(sc) : sc \in ExpectedIds}
Lacking(h) == {sc \in ExpectedIds : h \notin HexesOfFile(sc)}
AllFilesExist == \A sc \in ExpectedIds : chunk_merge.files[sc].exists

\* C13: when every expected scenario's file of the chunk exists and some hex
\* index of these files has no row in one or more of the expected scenarios,
\* _merge_single_chunk ends with the ValueError of missing cell data, which
\* names such a hex index and exactly the scenarios that lack it.
C13_MissingCellDataRaises ==
    (MergeDone /\ AllFilesExist /\ \E h \in HexesRead : Lacking(h) # {}) =>
        /\ chunk_merge.result.status = "ValueError"
        /\ chunk_merge.result.error[1] = "MissingCellData"
        /\ chunk_merge.result.error[2] \in HexesRead
        /\ Lacking(chunk_merge.result.error[2]) # {}
        /\ chunk_merge.result.error[3] = Lacking(chunk_merge.result.error[2])

\* Two scenarios; one hex is complete and the other lacks a scenario.
C13_Witness ==
    /\ MergeDone
    /\ AllFilesExist
    /\ Cardinality(ExpectedIds) = 2
    /\ \E h \in HexesRead : Lacking(h) = {}
    /\ \E h \in HexesRead : Lacking(h) # {}
    /\ chunk_merge.result.error[1] = "MissingCellData"

\* C14: a call of _merge_single_chunk that succeeds has written the object
\* of its chunk id, whose header is cell_code followed by the expected
\* scenario ids in sorted order, with exactly one row for every hex index of
\* the input files, and in that row the prediction that each scenario's file
\* gives for the hex.
C14_MergedOutputExact ==
    (MergeDone /\ chunk_merge.result.status = "ok") =>
        LET written == chunk_merge.result.written IN
        /\ written.object_name = OutputFileName(chunk_merge.chunk_id)
        /\ Len(written.header) = 1 + Cardinality(ExpectedIds)
        /\ written.header[1] = "cell_code"
        /\ {written.header[k] : k \in 2 .. Len(written.header)} = ExpectedIds
        /\ \A j, k \in 2 .. Len(written.header) :
               j < k => Rank(written.header[j]) < Rank(written.header[k])
        /\ {written.rows[n][1] : n \in 1 .. Len(written.rows)} = HexesRead
        /\ Len(written.rows) = Cardinality(HexesRead)
        /\ \A n \in 1 .. Len(written.rows) : \A k \in 2 .. Len(written.header) :
               \E r \in 1 .. Len(chunk_merge.files[written.header[k]].rows) :
                   /\ chunk_merge.files[written.header[k]].rows[r].h3_index
                          = written.rows[n][1]
                   /\ chunk_merge.files[written.header[k]].rows[r].prediction
                          = written.rows[n][k]

\* The run document lists the scenarios in descending order, the two files
\* hold the same two hexes in different row order and with different values.
C14_Witness ==
    /\ MergeDone
    /\ chunk_merge.result.status = "ok"
    /\ chunk_merge.run_scenario_ids = <<"s1", "s0">>
    /\ Cardinality(HexesRead) = 2
    /\ chunk_merge.files["s0"].rows[1].h3_index # chunk_merge.files["s1"].rows[1].h3_index
    /\ \E h \in HexesRead :
           PredictionOf(chunk_merge.files, "s0", h) # PredictionOf(chunk_merge.files, "s1", h)

----------------------------------------------------------------------------
\* The invocation of spatialize_chunk_predictions under study: its chunk
\* boundary, the rows of its own points that are retained, their hexagon
\* indices, and whether the aggregation has begun.
PrimaryBoundary ==
    get_chunk_boundary(study_area_metadata_of(spatialize.grid),
                       chunk_metadata_of(spatialize.at, spatialize.shape))
PrimaryRetained == retained_rows(spatialize.points, PrimaryBoundary)
PrimaryBoundaryCells == boundary_h3_cells_of(PrimaryRetained)
AggregationBegun ==
    /\ spatialize.pc \in {"neighbors", "write", "returned", "raised"}
    /\ spatialize.points # <<>>
HexesOf(frame) == {frame[k].h3_index : k \in 1 .. Len(frame)}
CutsBoundaryCell(n) ==
    \E h \in PrimaryBoundaryCells :
        intersects(h3_to_geo_boundary(h),
                   get_chunk_boundary(study_area_metadata_of(spatialize.grid),
                                      chunk_metadata_of(n, spatialize.shape)))

\* C15: when none of the retained rows of the primary chunk is a boundary
\* cell, the aggregation has queried no neighbor chunk document and read no
\* neighbor predictions file, has not failed, and its result is the maximum
\* per hexagon index of the primary chunk's retained rows.
C15_NoBoundaryNoNeighbors ==
    (AggregationBegun /\ PrimaryBoundaryCells = {}) =>
        /\ spatialize.pc \in {"write", "returned"}
        /\ spatialize.queried = {}
        /\ spatialize.read = {}
        /\ spatialize.series = groupby_max(PrimaryRetained)

\* A chunk without boundary cells whose grid has a neighbor position with no
\* registered chunk: the output is written all the same.
C15_Witness ==
    /\ spatialize.pc = "returned"
    /\ PrimaryBoundaryCells = {}
    /\ PrimaryRetained # <<>>
    /\ \E n \in InBounds(spatialize.grid, spatialize.at) : spatialize.faults[n] = "missing"
    /\ spatialize.csv.written

\* C16: the neighbor chunk documents looked up are among the adjacent
\* positions inside [0, chunk_x_count) x [0, chunk_y_count), and they are
\* all of them once the loop over the neighbors has ended without error;
\* no error names a position outside these bounds; and a looked-up position
\* with no registered chunk has made the aggregation fail with the error of
\* a missing neighbor that names this position.
C16_NeighborLookups ==
    AggregationBegun =>
        LET inside == InBounds(spatialize.grid, spatialize.at) IN
        /\ spatialize.queried \subseteq inside
        /\ (spatialize.pc \in {"write", "returned"} /\ PrimaryBoundaryCells # {}) =>
               /\ spatialize.queried = inside
               /\ \A n \in inside : spatialize.faults[n] # "missing"
        /\ spatialize.error # <<>> => spatialize.error[2] \in inside
        /\ \A n \in spatialize.queried :
               spatialize.faults[n] = "missing" =>
                   /\ spatialize.pc = "raised"
                   /\ spatialize.error = <<"MissingNeighbor", n>>

\* A corner chunk with boundary cells: positions outside the grid have been
\* skipped, a neighbor has been looked up with success, and the lookup of a
\* position without chunk has failed.
C16_Witness ==
    /\ spatialize.pc = "raised"
    /\ spatialize.error[1] = "MissingNeighbor"
    /\ Cardinality(spatialize.queried) >= 2
    /\ \E n \in neighbors_of(spatialize.at[1], spatialize.at[2]) :
           /\ n \notin InBounds(spatialize.grid, spatialize.at)
           /\ n \notin spatialize.remaining

\* C17: the CSV of a chunk with boundary cells is written only when every
\* neighbor position inside the grid has a chunk document with all required
\* fields and every neighbor that intersects a boundary cell has readable
\* predictions of the right size; an invocation that failed has written
\* nothing.
C17_NoPartialOutput ==
    /\ spatialize.pc = "raised" => ~spatialize.csv.written
    /\ (spatialize.pc # "none" /\ spatialize.csv.written /\ PrimaryBoundaryCells # {}) =>
           /\ spatialize.error = <<>>
           /\ \A n \in InBounds(spatialize.grid, spatialize.at) :
                  /\ spatialize.faults[n] \notin {"missing", "invalid"}
                  /\ CutsBoundaryCell(n) => spatialize.faults[n] = "ok"

\* Rows of one neighbor were already added to the frame when the lookup of
\* another neighbor, which intersects no boundary cell, failed.
C17_Witness ==
    /\ spatialize.pc = "raised"
    /\ spatialize.error[1] \in {"MissingNeighbor", "InvalidNeighborMetadata"}
    /\ ~CutsBoundaryCell(spatialize.error[2])
    /\ Len(spatialize.frame) > Len(PrimaryRetained)
    /\ ~spatialize.csv.written

\* C18: an invocation of spatialize_chunk_predictions that met a
\* non-retriable error (missing or invalid study-area or chunk metadata,
\* missing or too many predictions, missing or invalid neighbor) has not
\* raised.
C18_NonRetriableCompletes ==
    (spatialize.pc # "none" /\ spatialize.error # <<>>
        /\ spatialize.error[1] \in {"MissingMetadata", "InvalidMetadata",
                                    "MissingPredictions", "TooManyPredictions",
                                    "MissingNeighbor", "InvalidNeighborMetadata"}) =>
        spatialize.pc # "raised"

C20_ShapeMismatchFails ==
    (spatialize.pc # "none" /\ spatialize.points # <<>>) =>
        /\ Len(spatialize.predictions) = spatialize.shape[1]
        /\ \A r \in 1 .. Len(spatialize.predictions) :
               Len(spatialize.predictions[r]) = spatialize.shape[2]

----------------------------------------------------------------------------
\* C21: for a raster of row_count rows of col_count values, the points built
\* for the primary chunk are row_count * col_count in number, and the point
\* at place r * col_count + c has the centre
\* (x_ll_corner + (c + 0.5) * cell_size, y_ll_corner + (r + 0.5) * cell_size)
\* of the source CRS (here in the doubled coordinates of GLOBAL_CRS) and the
\* value raster[row_count - 1 - r][c].
C21_GridProjection ==
    (/\ spatialize.pc # "none"
     /\ spatialize.points # <<>>
     /\ Len(spatialize.predictions) = spatialize.shape[1]
     /\ \A r \in 1 .. Len(spatialize.predictions) :
            Len(spatialize.predictions[r]) = spatialize.shape[2]) =>
        LET row_count == spatialize.shape[1]
            col_count == spatialize.shape[2]
            cm == chunk_metadata_of(spatialize.at, spatialize.shape)
        IN  /\ Len(spatialize.points) = row_count * col_count
            /\ \A r \in 0 .. row_count - 1 : \A c \in 0 .. col_count - 1 :
                   LET point == spatialize.points[r * col_count + c + 1] IN
                   /\ point.lon = 2 * cm.x_ll_corner + (2 * c + 1) * cell_size
                   /\ point.lat = 2 * cm.y_ll_corner + (2 * r + 1) * cell_size
                   /\ point.prediction = spatialize.predictions[row_count - r][c + 1]

\* A chunk away from the origin whose raster has rows of different values.
C21_Witness ==
    /\ spatialize.pc = "h3"
    /\ spatialize.at = <<1, 1>>
    /\ Len(spatialize.predictions) = spatialize.shape[1]
    /\ Len(spatialize.predictions[1]) = spatialize.shape[2]
    /\ spatialize.predictions[1] # spatialize.predictions[2]
    /\ Len(spatialize.points) = spatialize.shape[1] * spatialize.shape[2]

----------------------------------------------------------------------------
\* The points of the neighbor chunk at position n, and the predictions that
\* the combined point set holds for a hexagon index: those of the primary
\* chunk's retained rows and those of the points of every neighbor inside
\* the grid whose boundary intersects a boundary cell.
NeighborPoints(n) ==
    build_spatialized_model_predictions(
        study_area_metadata_of(spatialize.grid),
        chunk_metadata_of(n, spatialize.shape),
        NeighborRaster(n, spatialize.shape, spatialize.faults[n])).points
CuttingNeighbors ==
    {n \in InBounds(spatialize.grid, spatialize.at) : CutsBoundaryCell(n)}
PrimaryPredictions(h) ==
    {PrimaryRetained[k].prediction :
        k \in {j \in 1 .. Len(PrimaryRetained) : PrimaryRetained[j].h3_index = h}}
NeighborPredictions(n, h) ==
    {NeighborPoints(n)[p].prediction :
        p \in {q \in 1 .. Len(NeighborPoints(n)) :
            geo_to_h3(NeighborPoints(n)[q].lat, NeighborPoints(n)[q].lon) = h}}
CombinedPredictions(h) ==
    PrimaryPredictions(h) \cup UNION {NeighborPredictions(n, h) : n \in CuttingNeighbors}

\* C22: every value of the written output is the maximum of the combined
\* point set of its hexagon index, and at no time has the predictions file
\* of a neighbor that intersects no boundary cell been read; when the output
\* is written every intersecting neighbor has been read.
C22_MaxOverCombinedSet ==
    spatialize.pc # "none" =>
        /\ AggregationBegun => spatialize.read \subseteq CuttingNeighbors
        /\ spatialize.csv.written =>
               /\ PrimaryBoundaryCells # {} => spatialize.read = CuttingNeighbors
               /\ \A h \in DOMAIN spatialize.csv.rows :
                      /\ spatialize.csv.rows[h] \in CombinedPredictions(h)
                      /\ \A v \in CombinedPredictions(h) : v <= spatialize.csv.rows[h]

\* The value written for some hexagon index comes from a neighbor: it
\* exceeds every prediction of the primary chunk in that hexagon; another
\* neighbor inside the grid intersects no boundary cell.
C22_Witness ==
    /\ spatialize.pc = "returned"
    /\ \E h \in DOMAIN spatialize.csv.rows :
           \A v \in PrimaryPredictions(h) : v < spatialize.csv.rows[h]
    /\ InBounds(spatialize.grid, spatialize.at) \ CuttingNeighbors # {}

----------------------------------------------------------------------------
\* Some worker of invocation i has been submitted and has not ended.
WorkerRunning(i) ==
    /\ Has(i, "submit")
    /\ \E c \in ChunkIds : results[i][c] = "pending"

\* C23: while a submitted worker of an invocation has not ended, the
\* invocation has neither inspected a result nor deleted the lock, and the
\* lock document it created is in the store; an invocation that reports the
\* merge as written has the result "ok" from every submitted chunk.
C23_WaitForAll ==
    \A i \in Invocations :
        /\ WorkerRunning(i) =>
               /\ pc[i] = "running"
               /\ HoldsLock(i)
               /\ ~Has(i, "delete_lock")
               /\ ~Has(i, "log_ERROR_worker")
               /\ ~Has(i, "log_DEBUG_wrote_files")
               /\ ~Has(i, "raise")
        /\ Has(i, "log_DEBUG_wrote_files") =>
               \A k \in 1 .. Len(chunk_ids[i]) : results[i][chunk_ids[i][k]] = "ok"

\* Two workers were submitted, the first failed, and the lock was deleted
\* after the second had ended too.
C23_Witness ==
    \E i \in Invocations :
        /\ Done(i)
        /\ Has(i, "delete_lock")
        /\ Len(subsets[i]) >= 2
        /\ WorkerResult(i, 1) # "ok"
        /\ \A c \in ChunkIds : results[i][c] \notin {"pending", "none"}

----------------------------------------------------------------------------
\* Invocation i was cancelled between its _set_lock and its _delete_lock.
Cancelled(i) == Done(i) /\ Has(i, "cancelled")

\* C24: the lock document of a cancelled invocation stays in the store, and
\* an invocation of the same batch and study area that has passed the
\* completeness gate and comes to the lock afterwards goes on to create the
\* lock and merge, instead of ending there.
C24_CancelledLockCleared ==
    /\ [](\A i \in Invocations : Cancelled(i) => HoldsLock(i))
    /\ [][\A i, j \in Invocations :
            (/\ i # j
             /\ Cancelled(i)
             /\ HoldsLock(i)
             /\ study_area_name[j] = study_area_name[i]
             /\ pc[j] = "get_lock"
             /\ pc'[j] # "get_lock")
                => pc'[j] = "set_lock"]_vars

----------------------------------------------------------------------------
\* Every expected file is in the input bucket; every chunk of the study
\* area has its merged output.
AllExpectedWritten == ExpectedBlobs \subseteq blobs
Merged ==
    \A sa \in StudyAreaNames :
        \A k \in 1 .. get_expected_num_chunks(study_area_docs[sa]) :
            [sa |-> sa, ch |-> ChunkIdOrder[k]] \in output

\* C25: once every expected file has been written, with one invocation
\* triggered per write, the lock free at the start and no failure of a
\* worker or of the store, the merged output of every chunk id is eventually
\* written and the lock document is absent from then on.
C25_EventuallyMerged ==
    [](AllExpectedWritten => <>[](Merged /\ locks = {}))

----------------------------------------------------------------------------
\* The run document, or the study-area document read after a whole run
\* document, exists and lacks a field the manifest needs.
LacksRequiredField ==
    LET sad == study_area_docs[re_match(trigger.name).study_area_name] IN
    \/ run_doc.exists /\ "scenario_ids" \notin run_doc.fields
    \/ /\ run_doc.exists
       /\ "scenario_ids" \in run_doc.fields
       /\ sad.exists
       /\ {"chunk_x_count", "chunk_y_count"} \ sad.fields # {}

\* C26: an invocation whose run document or study-area document exists but
\* lacks a required field ends in the manifest reading by logging and
\* returning, without raising, and no lock document is created.
C26_MissingFieldIsInvalidMetadata ==
    (trigger.pc \in {"done", "list_blobs"} /\ LacksRequiredField) =>
        /\ trigger.pc = "done"
        /\ trigger.events[Len(trigger.events)] = "return"
        /\ \A k \in 1 .. Len(trigger.events) : trigger.events[k] # "raise"
        /\ locks = {}

----------------------------------------------------------------------------
\* C27: a spatialize task is created only when every per-chunk file write
\* has ended without an exception, and an invocation of which a create_task
\* call failed ends by raising, without the log that the export pipeline
\* was triggered.
C27_TaskFailureRaised ==
    /\ (\E k \in DOMAIN trigger.queue_futures : trigger.queue_futures[k] # "none") =>
           \A k \in DOMAIN trigger.write_futures : trigger.write_futures[k] = "ok"
    /\ (/\ trigger.pc = "done"
        /\ \E k \in DOMAIN trigger.queue_futures : trigger.queue_futures[k] = "Exception") =>
           /\ trigger.events[Len(trigger.events)] = "raise"
           /\ \A k \in 1 .. Len(trigger.events) : trigger.events[k] # "log_DEBUG_triggered"

----------------------------------------------------------------------------
\* C28: a call of _merge_single_chunk that ends with the ValueError of
\* missing cell data has not opened the output object of its chunk: neither
\* the header nor any row has been written to it.
C28_NoPartialMergedOutput ==
    (/\ MergeDone
     /\ chunk_merge.result.status = "ValueError"
     /\ chunk_merge.result.error[1] = "MissingCellData") =>
        chunk_merge.result.written = NotOpened

----------------------------------------------------------------------------
\* The objects of the input bucket that belong to the study area sa.
OwnBlobs(sa) == {b \in blobs : b.sa = sa}

\* C29: the mapping of scenario ids to chunk ids on which an invocation
\* that has found its manifest decides completeness is that of the objects of its own study area, and
\* the outcome of the gate and the chunk ids handed on are what they would
\* be with no object of another study area in the bucket.
C29_BatchIsolation ==
    [][\A i \in Invocations :
        LET sa == study_area_name'[i]
            own == gate(run_doc, study_area_docs[sa], OwnBlobs(sa), sa)
        IN  (BeginStep(i) /\ ManifestOf(sa)) =>
                /\ Listing(sa) = get_chunk_ids_to_scenario_id(list_blobs(OwnBlobs(sa), sa))
                /\ pc'[i] = own.pc
                /\ trace'[i] = own.events
                /\ chunk_ids'[i] = own.chunk_ids]_vars

----------------------------------------------------------------------------
\* The batch of invocation i: its model id and its study area name (batch
\* id and prediction type are the same for all).
BatchOf(i) == <<trigger.model_id[i], study_area_name[i]>>

\* C30: invocations of different batches have different lock documents once
\* they have come to the lock; an invocation ends on a held lock only when
\* an invocation of its own batch has created one, and the lock document of
\* an invocation that is merging is in the store.
C30_LockKeysInjective ==
    \A i \in Invocations :
        /\ \A j \in Invocations :
               (BatchOf(i) # BatchOf(j) /\ pc[i] # "get_lock" /\ pc[j] # "get_lock")
                   => LockKey(i) # LockKey(j)
        /\ (Has(i, "log_WARNING_already_running") \/ Has(i, "create_Conflict")) =>
               \E j \in Invocations \ {i} : BatchOf(j) = BatchOf(i) /\ Has(j, "set_lock")
        /\ pc[i] = "dispatch" => HoldsLock(i)

====
